---- MODULE Spec2Model ----
(***************************************************************************)
(* Model of the client-side status derivations of the asset dashboard:     *)
(*   - AssignmentDetailsPage: overdue / late / duration values computed    *)
(*     during render from the fetched assignment and the browser clock;    *)
(*   - ProductTable.getStockBadge and the Home low-stock status cell.      *)
(* Time is counted in ticks; TicksPerDay ticks make one day (86400000 ms). *)
(***************************************************************************)
EXTENDS Integers, Sequences, FiniteSets, TLC

\* ---------------------------------------------------------------- bounds
TicksPerDay == 4
DstShift == 1
MaxTime == 9
MaxAssignedAt == 1
MaxStock == 5
MaxRenderDelay == 1
MaxVersion == 3
MaxAssignments == 2
MaxProducts == 2
MaxEmployees == 1
MaxItems == 2
MaxQuantity == 2
MaxTokens == 12
MaxRoles == 8
MaxTotal == 75

\* ------------------------------------------------ JavaScript value encodings
\* time value of an Invalid Date (NaN)
NaN == -1
\* a Date variable holding null
NullDate == -2
\* no number is displayed
NoDays == -9

Times == 0..MaxTime

\* A timestamp field of the JSON body: absent, an unparseable string, or an
\* ISO-8601 string denoting the instant t.
Unset == [k |-> "unset", t |-> 0]
BadString == [k |-> "bad", t |-> 0]
Iso(t) == [k |-> "iso", t |-> t]
RawTimes == {Unset, BadString} \cup {Iso(t) : t \in Times}

\* JavaScript truthiness of a string-or-undefined field
Truthy(raw) == raw.k # "unset"

\* new Date(value): the time value of the constructed Date
NewDate(raw) == IF raw.k = "iso" THEN raw.t ELSE NaN

\* ------------------------------------------------------- browser time zone
\* A zone is a daylight-saving interval [fwd, back): inside it local time is
\* DstShift ahead.  fwd = back is a zone with a constant UTC offset.
FixedZone == [fwd |-> 0, back |-> 0]
Zones == {FixedZone, [fwd |-> 5, back |-> MaxTime + TicksPerDay], [fwd |-> 1, back |-> 6]}

Offset(t, z) == IF z.fwd <= t /\ t < z.back THEN DstShift ELSE 0

\* local wall-clock reading of instant t (what getDate/getHours/... expose)
Local(t, z) == t + Offset(t, z)

\* instant denoted by wall-clock reading w (Date.prototype.setDate): the
\* earliest instant showing w, or, when w falls in the skipped interval, w
\* read with the offset in force before the transition
ToUTC(w, z) ==
  LET cands == {t \in (w - DstShift)..w : t >= 0 /\ Local(t, z) = w}
  IN IF cands # {} THEN CHOOSE t \in cands : \A u \in cands : t <= u
     ELSE w

Sgn(x) == IF x < 0 THEN -1 ELSE IF x > 0 THEN 1 ELSE 0
Abs(x) == IF x < 0 THEN -x ELSE x

\* date-fns isAfter(date, dateToCompare)
IsAfterGE(d, c) == d # NaN /\ c # NaN /\ d >= c
isAfter(d, c) == d # NaN /\ c # NaN /\ d > c

\* date-fns compareLocalAsc: wall-clock fields compared year..millisecond
compareLocalAsc(l, r, z) == Sgn(Local(l, z) - Local(r, z))

\* date-fns differenceInCalendarDays: local start-of-day numbers subtracted
differenceInCalendarDays(l, r, z) ==
  (Local(l, z) \div TicksPerDay) - (Local(r, z) \div TicksPerDay)

\* date-fns differenceInDays(dateLeft, dateRight): full days, in local time
differenceInDaysCalendar(l, r, z) ==
  IF l = NaN \/ r = NaN THEN NaN ELSE differenceInCalendarDays(l, r, z)
differenceInDays(l, r, z) ==
  IF l = NaN \/ r = NaN THEN NaN
  ELSE LET sign == compareLocalAsc(l, r, z)
           difference == Abs(differenceInCalendarDays(l, r, z))
           moved == ToUTC(Local(l, z) - sign * difference * TicksPerDay, z)
           isLastDayNotFull ==
             IF compareLocalAsc(moved, r, z) = -sign THEN 1 ELSE 0
       IN sign * (difference - isLastDayNotFull)

\* ------------------------------------------------------------------ state
VARIABLES
  clock,        \* the browser's wall clock (what new Date() returns)
  zone,         \* the browser's time zone
  assignment,   \* the assignment snapshot held by the query, or NoAssignment
  view,         \* what AssignmentDetailsPage rendered last
  product,      \* a product row of the products query
  badge,        \* what getStockBadge rendered for it
  lowRow,       \* a row of stockSummary.lowStockProducts
  lowCell,      \* the status cell Home rendered for it
  rfView,       \* the mounted list/detail view, "none" before mount
  rfServer,     \* version of the server data behind the view's query
  rfShown,      \* version the view displays; NoData while loading or in error
  rfFetch,      \* the view's query request in flight
  rfMut,        \* the view's mutation in flight
  rfAcked,      \* server version produced by the view's last successful mutation
  patServer,    \* ids of the assignments that are active on the server
  patShown,     \* ProductAssignedTable: what the table renders
  patFetch,     \* its active-assignments request in flight
  patDialog,    \* its returnDialog state
  patCaptured,  \* the returnDialog value closed over by the memoized columns
  patQr,        \* isGeneratingAssignmentQr
  patMut,       \* its return request in flight
  patReturned,  \* ids whose return request has succeeded
  selectedProduct,      \* ProductTable state; 0 stands for null
  selectedEmployee,
  selectedInventoryId,
  availableInventory,
  assignDialogOpen,
  addStockDialogOpen,
  inventoryFetches,     \* handleAssignClick calls awaiting apiGetAvailableInventory
  assignRequest,        \* the assign request on the wire
  pdInventory,          \* ProductDetailsPage: product.inventory, id -> status
  pdRefetching,         \* a refetch() of the product query is under way
  selectedInventory,    \* the item copied into the edit / delete dialog
  selectedInventoryIds,
  editInventoryDialog,
  deleteInventoryDialog,
  bulkDeleteDialog,
  inventorySearch,
  inventoryRequest,     \* the inventory mutation on the wire
  stockQuantity,        \* ProductTable Add Stock form
  stockSerialNumbers,
  addStockRequest,      \* the add-stock request on the wire
  patDeleteDialog,      \* ProductAssignedTable deleteDialog state
  patDeleteMut,         \* its delete request in flight
  session,              \* state of the auth session slice
  lastAction,           \* the action dispatched last to the session slice
  createCall,           \* the last create call: service, HTTP outcome, result
  pagination,           \* EmployeeTable's page and limit
  employeeTotal         \* the total of the employee list EmployeeTable shows

refreshVars == <<rfView, rfServer, rfShown, rfFetch, rfMut, rfAcked>>
returnVars == <<patServer, patShown, patFetch, patDialog, patCaptured, patQr,
                patMut, patReturned>>
dialogVars == <<selectedProduct, selectedEmployee, selectedInventoryId,
                availableInventory, assignDialogOpen, addStockDialogOpen,
                inventoryFetches, assignRequest>>
inventoryVars == <<pdInventory, pdRefetching, selectedInventory,
                   selectedInventoryIds, editInventoryDialog,
                   deleteInventoryDialog, bulkDeleteDialog, inventorySearch,
                   inventoryRequest>>
stockFormVars == <<stockQuantity, stockSerialNumbers, addStockRequest>>
deleteVars == <<patDeleteDialog, patDeleteMut>>
sessionVars == <<session, lastAction>>
createVars == <<createCall>>
employeeVars == <<pagination, employeeTotal>>
vars == <<clock, zone, assignment, view, product, badge, lowRow, lowCell,
          refreshVars, returnVars, dialogVars, inventoryVars, stockFormVars,
          deleteVars, sessionVars, createVars, employeeVars>>
assignVars == <<clock, zone, assignment, view>>
stockVars == <<product, badge, lowRow, lowCell>>

NoAssignment == [assignedAt |-> Unset, expectedReturnAt |-> Unset,
                 returnedAt |-> Unset, loaded |-> FALSE]

Assignments ==
  [assignedAt : {BadString} \cup {Iso(t) : t \in 0..MaxAssignedAt},
   expectedReturnAt : RawTimes,
   returnedAt : RawTimes,
   loaded : {TRUE}]

\* the spinner shown while isLoading
LoadingView ==
  [phase |-> "loading", returnedShown |-> FALSE, isOverdue |-> FALSE,
   wasOverdue |-> FALSE, durationDays |-> NoDays, expectedText |-> "none",
   overdueDays |-> NoDays, returnStatus |-> "none", lateDays |-> NoDays,
   now1 |-> NaN, now2 |-> NaN, now3 |-> NaN]

\* the render aborted by the RangeError that date-fns format throws for an
\* Invalid Date
ThrewView == [LoadingView EXCEPT !.phase = "threw"]

\* line 192: const endDate = returnedDate || new Date()
endDate(returnedDate, now) ==
  IF returnedDate # NullDate THEN returnedDate ELSE now

\* line 196: expectedReturnDate && !returnedDate && isAfter(new Date(), expectedReturnDate)
isOverdueIgnoringReturn(expectedReturnDate, returnedDate, now) ==
  expectedReturnDate # NullDate /\ isAfter(now, expectedReturnDate)
isOverdueUnguarded(expectedReturnDate, returnedDate, now) ==
  returnedDate = NullDate /\ isAfter(now, expectedReturnDate)
isOverdue(expectedReturnDate, returnedDate, now) ==
  expectedReturnDate # NullDate /\ returnedDate = NullDate
    /\ isAfter(now, expectedReturnDate)

\* line 197: returnedDate && expectedReturnDate && isAfter(returnedDate, expectedReturnDate)
wasOverdueInclusive(returnedDate, expectedReturnDate) ==
  returnedDate # NullDate /\ expectedReturnDate # NullDate
    /\ IsAfterGE(returnedDate, expectedReturnDate)
wasOverdue(returnedDate, expectedReturnDate) ==
  returnedDate # NullDate /\ expectedReturnDate # NullDate
    /\ isAfter(returnedDate, expectedReturnDate)

\* date-fns format(date, ...) throws RangeError: Invalid time value
formatThrows(date) == date = NaN

\* The body of AssignmentDetailsPage for a loaded assignment a; n1, n2, n3
\* are what the three new Date() calls (lines 192, 196, 287) return.
RenderAssignment(a, n1, n2, n3, z) ==
  LET assignedDate == NewDate(a.assignedAt)
      returnedDate == IF Truthy(a.returnedAt) THEN NewDate(a.returnedAt)
                      ELSE NullDate
      expectedReturnDate == IF Truthy(a.expectedReturnAt)
                            THEN NewDate(a.expectedReturnAt) ELSE NullDate
      durationDays ==
        differenceInDays(endDate(returnedDate, n1), assignedDate, z)
      over == isOverdue(expectedReturnDate, returnedDate, n2)
      was == wasOverdue(returnedDate, expectedReturnDate)
      expectedBlock == expectedReturnDate # NullDate /\ returnedDate = NullDate
      statusBlock == returnedDate # NullDate /\ expectedReturnDate # NullDate
  IN IF formatThrows(assignedDate) \/ formatThrows(returnedDate)
        \/ formatThrows(expectedReturnDate)
     THEN ThrewView
     ELSE [phase |-> "rendered",
           returnedShown |-> returnedDate # NullDate,
           isOverdue |-> over,
           wasOverdue |-> was,
           durationDays |-> IF returnedDate # NullDate THEN NoDays
                            ELSE durationDays,
           expectedText |->
             IF expectedBlock THEN (IF over THEN "overdue" ELSE "ontime")
             ELSE "none",
           overdueDays |->
             IF expectedBlock /\ over
             THEN differenceInDays(n3, expectedReturnDate, z) ELSE NoDays,
           returnStatus |->
             IF statusBlock THEN (IF was THEN "late" ELSE "ontime")
             ELSE "none",
           lateDays |->
             IF statusBlock /\ was
             THEN differenceInDays(returnedDate, expectedReturnDate, z)
             ELSE NoDays,
           now1 |-> IF returnedDate = NullDate THEN n1 ELSE NaN,
           now2 |-> IF expectedReturnDate # NullDate /\ returnedDate = NullDate
                    THEN n2 ELSE NaN,
           now3 |-> IF expectedBlock /\ over THEN n3 ELSE NaN]

\* The tagged state the page displays
AssignmentState(v) ==
  IF v.phase = "threw" THEN "Threw"
  ELSE IF v.phase # "rendered" THEN "None"
  ELSE IF v.isOverdue THEN "Overdue"
  ELSE IF v.wasOverdue THEN "ReturnedLate"
  ELSE IF v.returnedShown THEN "Returned"
  ELSE "Active"

\* --------------------------------------------------------- stock badge
StockStatuses == {"AVAILABLE", "LOW_STOCK", "OUT_OF_STOCK", "undefined"}
StockInfos == [stockStatus : StockStatuses, availableStock : 0..MaxStock]
Products == [stockInfo : StockInfos, minStockLevel : 0..MaxStock, loaded : {TRUE}]
\* before the products query resolves there is no row
NoProduct == [stockInfo |-> [stockStatus |-> "undefined", availableStock |-> 0],
              minStockLevel |-> 0, loaded |-> FALSE]
NoCount == -1
NoBadge == [kind |-> "none", count |-> NoCount]

\* ProductTable.getStockBadge
getStockBadgeRecomputing(stockInfo) ==
  IF stockInfo.availableStock = 0
  THEN [kind |-> "OutOfStock", count |-> NoCount]
  ELSE IF stockInfo.stockStatus = "LOW_STOCK"
  THEN [kind |-> "LowStock", count |-> stockInfo.availableStock]
  ELSE [kind |-> "InStock", count |-> stockInfo.availableStock]
getStockBadge(stockInfo) ==
  LET stockStatus == stockInfo.stockStatus
      availableStock == stockInfo.availableStock
  IN CASE stockStatus = "OUT_OF_STOCK" -> [kind |-> "OutOfStock", count |-> NoCount]
       [] stockStatus = "LOW_STOCK" -> [kind |-> "LowStock", count |-> availableStock]
       [] OTHER -> [kind |-> "InStock", count |-> availableStock]

\* Home: status cell of a lowStockProducts row
LowRows == [currentStock : 0..MaxStock, minStock : 0..MaxStock, loaded : {TRUE}]
NoLowRow == [currentStock |-> 0, minStock |-> 0, loaded |-> FALSE]
lowStockCell(row) ==
  IF row.currentStock = 0 THEN "OutOfStock" ELSE "LowStock"

\* ------------------------------------------- mutations and query refresh
Views == {"ProductTable", "ProductAssignedTable", "ProductDetailsPage"}

\* queryKey of the query whose data the view renders
QueryKeyOf(v) ==
  CASE v = "ProductTable" ->
         <<"products", "pagination", "searchTerm", "stockFilter">>
    [] v = "ProductAssignedTable" ->
         <<"active-assignments", "pagination", "searchTerm", "overdueFilter">>
    [] OTHER -> <<"product", "id">>

\* the mutations each view declares
MutationsOf(v) ==
  CASE v = "ProductTable" -> {"assign", "return", "addStock"}
    [] v = "ProductAssignedTable" -> {"return", "delete"}
    [] v = "ProductDetailsPage" ->
         {"addStock", "updateInventory", "deleteInventory", "bulkDeleteInventory"}
    [] OTHER -> {}

\* what a mutation's onSuccess does to the query cache
OnSuccessOfStaleKey(v, kind) ==
  CASE v = "ProductTable" -> [how |-> "invalidate", key |-> <<"products">>]
    [] v = "ProductAssignedTable" ->
         [how |-> "invalidate", key |-> <<"assignments">>]
    [] OTHER -> [how |-> "refetch", key |-> QueryKeyOf(v)]
OnSuccessOf(v, kind) ==
  CASE v = "ProductTable" -> [how |-> "invalidate", key |-> <<"products">>]
    [] v = "ProductAssignedTable" ->
         [how |-> "invalidate", key |-> <<"active-assignments">>]
    [] OTHER -> [how |-> "refetch", key |-> QueryKeyOf(v)]

\* query-key matching of invalidateQueries: the filter key is a prefix
IsPrefix(f, k) == Len(f) <= Len(k) /\ \A i \in 1..Len(f) : f[i] = k[i]

RefreshesView(v, kind) ==
  LET e == OnSuccessOf(v, kind)
  IN e.how = "refetch" \/ IsPrefix(e.key, QueryKeyOf(v))

NoData == -1
IdleFetch == [st |-> "idle", sees |-> 0]
SentFetch == [st |-> "sent", sees |-> 0]
IdleMut == [st |-> "idle", kind |-> "none", ver |-> 0]

RefreshInit ==
  /\ rfView = "none"
  /\ rfServer = 0
  /\ rfShown = NoData
  /\ rfFetch = IdleFetch
  /\ rfMut = IdleMut
  /\ rfAcked = 0

\* ------------------------------------------------- ProductAssignedTable
AssignmentIds == 1..MaxAssignments
Conditions == {"EXCELLENT", "GOOD", "FAIR", "POOR"}
InventoryStatuses == {"AVAILABLE", "MAINTENANCE", "DAMAGED"}

\* useState initial value of returnDialog; assignment 0 stands for null
ClosedReturnDialog ==
  [open |-> FALSE, assignment |-> 0, condition |-> "GOOD",
   inventoryStatus |-> "AVAILABLE"]

PatIdleFetch == [st |-> "idle", sees |-> {}]
PatIdleMut == [st |-> "idle", id |-> 0]

ReturnInit ==
  /\ patServer = AssignmentIds
  /\ patShown = [st |-> "unmounted", rows |-> {}]
  /\ patFetch = PatIdleFetch
  /\ patDialog = ClosedReturnDialog
  /\ patCaptured = ClosedReturnDialog
  /\ patQr = FALSE
  /\ patMut = PatIdleMut
  /\ patReturned = {}

\* useState initial value of deleteDialog
ClosedDeleteDialog == [open |-> FALSE, assignment |-> 0]

DeleteInit ==
  /\ patDeleteDialog = ClosedDeleteDialog
  /\ patDeleteMut = PatIdleMut

\* a row button of the table can be clicked
RowClickable(id) ==
  /\ patShown.st = "data"
  /\ id \in patShown.rows
  /\ ~patDialog.open
  /\ ~patDeleteDialog.open

\* ------------------------------------------- ProductTable assign dialog
ProductIds == 1..MaxProducts
EmployeeIds == 1..MaxEmployees

\* the inventory items of a product: item p belongs to product p
InventoryOf(p) == IF p \in ProductIds THEN {p} ELSE {}

AutoSelectValues == {"true", "false", "undefined", "absent"}

\* the argument objects apiAssignProduct accepts
AssignBodies ==
  [productId : ProductIds, employeeId : EmployeeIds,
   inventoryId : {0} \cup ProductIds, autoSelect : AutoSelectValues]

\* { ...data, autoSelect: true }
apiAssignProductForcing(data) == [data EXCEPT !.autoSelect = "true"]
\* { autoSelect: true, ...data }: a key present in data overwrites the default
apiAssignProduct(data) ==
  [data EXCEPT !.autoSelect = IF @ = "absent" THEN "true" ELSE @]

\* !selectedInventoryId
Not(id) == IF id = 0 THEN "true" ELSE "false"

NoRequest ==
  [st |-> "idle", productId |-> 0, employeeId |-> 0, inventoryId |-> 0,
   autoSelect |-> "absent"]

DialogInit ==
  /\ selectedProduct = 0
  /\ selectedEmployee = 0
  /\ selectedInventoryId = 0
  /\ availableInventory = {}
  /\ assignDialogOpen = FALSE
  /\ addStockDialogOpen = FALSE
  /\ inventoryFetches = {}
  /\ assignRequest = NoRequest

\* the row buttons are reachable while no dialog covers the table
TableClickable == ~assignDialogOpen /\ ~addStockDialogOpen

\* ------------------------------------------ ProductDetailsPage inventory
ItemIds == 1..MaxItems

\* statuses the product query delivers for an item
SnapshotStatuses == {"AVAILABLE", "ASSIGNED", "DAMAGED"}

\* options of the Status Select in the Edit Inventory dialog
EditStatuses == {"AVAILABLE", "MAINTENANCE", "DAMAGED", "RETIRED"}

Snapshots == [ItemIds -> SnapshotStatuses]

\* product is undefined while the query loads
NoInventory == [i \in {} |-> "AVAILABLE"]

NoItem == [id |-> 0, status |-> "NONE"]

NoInventoryRequest ==
  [kind |-> "none", ids |-> {}, status |-> "NONE", assigned |-> {}]

\* the search terms typed into the inventory search box
SearchTerms == {""} \cup SnapshotStatuses

InventoryInit ==
  /\ pdInventory = NoInventory
  /\ pdRefetching = TRUE
  /\ selectedInventory = NoItem
  /\ selectedInventoryIds = {}
  /\ editInventoryDialog = FALSE
  /\ deleteInventoryDialog = FALSE
  /\ bulkDeleteDialog = FALSE
  /\ inventorySearch = ""
  /\ inventoryRequest = NoInventoryRequest

\* ids of the displayed snapshot whose status is ASSIGNED
AssignedIn(inv) == {i \in DOMAIN inv : inv[i] = "ASSIGNED"}

\* filteredInventoryData: the search term is matched against the status text
filteredInventoryData ==
  {i \in DOMAIN pdInventory :
     inventorySearch = "" \/ pdInventory[i] = inventorySearch}

SelectableRows == filteredInventoryData \ AssignedIn(pdInventory)

NoInventoryDialog ==
  ~editInventoryDialog /\ ~deleteInventoryDialog /\ ~bulkDeleteDialog

\* a control of row i that is disabled for ASSIGNED items can be used
RowEnabled(i) == NoInventoryDialog /\ i \in SelectableRows

\* checked state of the header checkbox
HeaderChecked ==
  /\ Cardinality(selectedInventoryIds) > 0
  /\ Cardinality(selectedInventoryIds) = Cardinality(SelectableRows)

\* ------------------------------------------- ProductTable Add Stock form
\* Number(e.target.value) of the Quantity input; min and max are not enforced
\* on typed text
QuantityInputs == -1..MaxQuantity

\* texts typed into a serial number input: empty, blank, a serial number
SerialTexts == {"", " ", "SN"}

\* sn.trim()
Trim(sn) == IF sn = " " THEN "" ELSE sn

\* length of Array.from({ length: qty }, ...)
ToLength(qty) == IF qty < 0 THEN 0 ELSE qty

\* Array.from({ length: qty }, (_, i) => stockSerialNumbers[i] || '')
AdjustSerialNumbers(serials, qty) ==
  [i \in 1..ToLength(qty) |-> IF i <= Len(serials) THEN serials[i] ELSE ""]

\* stockSerialNumbers.filter(sn => sn.trim())
FilledSerialNumbers(serials) == SelectSeq(serials, LAMBDA sn : Trim(sn) # "")

NoStockRequest ==
  [st |-> "idle", productId |-> 0, quantity |-> 0, serialNumbers |-> <<>>]

StockFormInit ==
  /\ stockQuantity = 1
  /\ stockSerialNumbers = <<"">>
  /\ addStockRequest = NoStockRequest

\* ------------------------------------------------------- session slice
\* token values: 0 stands for null, -1 for undefined, 1.. for token strings
NullToken == 0
UndefinedValue == -1
Tokens == {UndefinedValue, NullToken} \cup 1..MaxTokens

\* role values: 0 stands for the empty string, 1.. for role names
EmptyRole == 0
Roles == {UndefinedValue} \cup 0..MaxRoles

\* payloads of signInSuccess
Payloads == [token : Tokens, role : Roles]

initialState == [signedIn |-> FALSE, token |-> NullToken, role |-> EmptyRole]

NoAction == [type |-> "none", payload |-> [token |-> NullToken, role |-> EmptyRole]]

SessionInit ==
  /\ session = initialState
  /\ lastAction = NoAction

\* ---------------------------------------- UserService and BranchService
\* a property that is absent from a JavaScript object
Undefined == "undefined"

\* x || y on strings
OrElse(x, y) == IF x \in {Undefined, ""} THEN y ELSE x

\* statuses ApiService.fetchData resolves with, and statuses it rejects with
ResponseStatuses == {200, 201, 202, 204}
ErrorStatuses == {400, 401, 403, 404, 409, 422, 500, 503}

\* response.data.message, error.response.data.message and error.message
Messages == {Undefined, "", "message"}

\* response.data.data
Datas == {Undefined, "created"}

\* the promise resolved with a response
Resolved(status, message, data) ==
  [kind |-> "resolved", status |-> status, message |-> message, data |-> data,
   hasResponse |-> TRUE, hasData |-> TRUE, hasRequest |-> TRUE]

\* the promise rejected with an error
Rejected(hasResponse, status, hasData, serverMessage, hasRequest, message) ==
  [kind |-> "rejected", status |-> status, message |-> message,
   data |-> serverMessage, hasResponse |-> hasResponse, hasData |-> hasData,
   hasRequest |-> hasRequest]

\* the outcomes of ApiService.fetchData
Outcomes ==
  {Resolved(status, message, data) :
     status \in ResponseStatuses, message \in Messages, data \in Datas}
  \cup
  {Rejected(TRUE, status, TRUE, serverMessage, hasRequest, message) :
     status \in ErrorStatuses, serverMessage \in Messages,
     hasRequest \in BOOLEAN, message \in Messages}
  \cup
  {Rejected(TRUE, status, FALSE, Undefined, hasRequest, message) :
     status \in ErrorStatuses, hasRequest \in BOOLEAN, message \in Messages}
  \cup
  {Rejected(FALSE, 0, FALSE, Undefined, hasRequest, message) :
     hasRequest \in BOOLEAN, message \in Messages}

\* the value an async create function settles with
Returned(success, message, data) ==
  [threw |-> FALSE, success |-> success, message |-> message, data |-> data]

\* getDefaultErrorMessage of UserService
UserService_getDefaultErrorMessage(statusCode) ==
  CASE statusCode = 400 -> "Invalid request data"
    [] statusCode = 401 -> "Authentication required"
    [] statusCode = 403 -> "Permission denied"
    [] statusCode = 409 -> "Username already exists"
    [] statusCode = 500 -> "Internal server error"
    [] OTHER -> "Failed to create user"

\* the mutant has no case for 409
BranchService_getDefaultErrorMessageWithout409(statusCode) ==
  CASE statusCode = 400 -> "Invalid request data"
    [] statusCode = 401 -> "Authentication required"
    [] statusCode = 403 -> "Permission denied"
    [] statusCode = 500 -> "Internal server error"
    [] OTHER -> "Failed to create branch"
\* getDefaultErrorMessage of BranchService
BranchService_getDefaultErrorMessage(statusCode) ==
  CASE statusCode = 400 -> "Invalid request data"
    [] statusCode = 401 -> "Authentication required"
    [] statusCode = 403 -> "Permission denied"
    [] statusCode = 409 -> "Branch name already exists"
    [] statusCode = 500 -> "Internal server error"
    [] OTHER -> "Failed to create branch"

\* error.response.data?.message
ServerMessage(error) == IF error.hasData THEN error.data ELSE Undefined

\* what apiCreateUser settles with for an outcome of its request
apiCreateUserResult(outcome) ==
  IF outcome.kind = "resolved"
  THEN IF outcome.status = 201
       THEN Returned(TRUE, Undefined, outcome.data)
       ELSE Returned(FALSE, OrElse(outcome.message, "Failed to create user"),
                     Undefined)
  ELSE IF outcome.hasResponse
       THEN Returned(FALSE,
                     OrElse(ServerMessage(outcome),
                            UserService_getDefaultErrorMessage(outcome.status)),
                     Undefined)
       ELSE IF outcome.hasRequest
            THEN Returned(FALSE, "No response received from server", Undefined)
            ELSE Returned(FALSE, OrElse(outcome.message, "Error creating user"),
                          Undefined)

\* what apiCreateBranch settles with for an outcome of its request
apiCreateBranchResult(outcome) ==
  IF outcome.kind = "resolved"
  THEN IF outcome.status = 201
       THEN Returned(TRUE, Undefined, outcome.data)
       ELSE Returned(FALSE, OrElse(outcome.message, "Failed to create branch"),
                     Undefined)
  ELSE IF outcome.hasResponse
       THEN Returned(FALSE,
                     OrElse(ServerMessage(outcome),
                            BranchService_getDefaultErrorMessage(outcome.status)),
                     Undefined)
       ELSE IF outcome.hasRequest
            THEN Returned(FALSE, "No response received from server", Undefined)
            ELSE Returned(FALSE,
                          OrElse(outcome.message, "Error creating branch"),
                          Undefined)

NoCall ==
  [service |-> "none", outcome |-> Resolved(0, Undefined, Undefined),
   result |-> Returned(FALSE, Undefined, Undefined)]

CreateInit == createCall = NoCall

\* ------------------------------------------------------- EmployeeTable
\* the query has no data yet
NoEmployeeData == -1

\* the page sizes the table's select offers
PageSizes == {10, 25}

maxButtons == 5

MathMax(a, b) == IF a >= b THEN a ELSE b
MathMin(a, b) == IF a <= b THEN a ELSE b
MathCeilDiv(a, b) == (a + b - 1) \div b

\* data?.data?.total || 0
total == IF employeeTotal = NoEmployeeData THEN 0 ELSE employeeTotal

totalPages == MathCeilDiv(total, pagination.limit)

\* the first page button before the adjustment
firstStart == MathMax(1, pagination.page - (maxButtons \div 2))

\* the last page button
end == MathMin(totalPages, firstStart + maxButtons - 1)

\* the first page button
start ==
  IF end - firstStart < maxButtons - 1
  THEN MathMax(1, end - maxButtons + 1)
  ELSE firstStart

\* renderPagination draws nothing for one page or none
paginationRendered == ~(totalPages <= 1)

\* the page buttons renderPagination draws
pages == IF paginationRendered THEN start..end ELSE {}

prevDisabled == pagination.page = 1
nextDisabled == pagination.page = totalPages

EmployeeInit ==
  /\ pagination = [page |-> 1, limit |-> 10]
  /\ employeeTotal = NoEmployeeData

\* ------------------------------------------------------------------- Init
Init ==
  /\ clock \in Times
  /\ zone \in Zones
  /\ assignment = NoAssignment
  /\ view = LoadingView
  /\ product = NoProduct
  /\ badge = NoBadge
  /\ lowRow = NoLowRow
  /\ lowCell = "none"
  /\ RefreshInit
  /\ ReturnInit
  /\ DialogInit
  /\ InventoryInit
  /\ StockFormInit
  /\ DeleteInit
  /\ SessionInit
  /\ CreateInit
  /\ EmployeeInit

\* ---------------------------------------------------------------- actions
\* the wall clock advances
Tick ==
  /\ clock < MaxTime
  /\ clock' = clock + 1
  /\ UNCHANGED <<zone, assignment, view>>
  /\ UNCHANGED stockVars
  /\ UNCHANGED refreshVars
  /\ UNCHANGED returnVars
  /\ UNCHANGED dialogVars
  /\ UNCHANGED inventoryVars
  /\ UNCHANGED stockFormVars
  /\ UNCHANGED deleteVars
  /\ UNCHANGED sessionVars
  /\ UNCHANGED createVars
  /\ UNCHANGED employeeVars

\* one render of the page: the clock may advance between its new Date() calls
RenderWith(a) ==
  \E d1 \in 0..MaxRenderDelay, d2 \in 0..MaxRenderDelay :
    /\ clock + d1 + d2 <= MaxTime
    /\ view' = RenderAssignment(a, clock, clock + d1, clock + d1 + d2, zone)
    /\ clock' = clock + d1 + d2

\* the assignment query resolves for the first time and the page renders
LoadAssignment ==
  /\ ~assignment.loaded
  /\ \E a \in Assignments :
       /\ assignment' = a
       /\ RenderWith(a)
  /\ UNCHANGED zone
  /\ UNCHANGED stockVars
  /\ UNCHANGED refreshVars
  /\ UNCHANGED returnVars
  /\ UNCHANGED dialogVars
  /\ UNCHANGED inventoryVars
  /\ UNCHANGED stockFormVars
  /\ UNCHANGED deleteVars
  /\ UNCHANGED sessionVars
  /\ UNCHANGED createVars
  /\ UNCHANGED employeeVars

\* a re-fetch brings a snapshot in which the server changed returnedAt
RefetchAssignment ==
  /\ assignment.loaded
  /\ \E r \in RawTimes :
       /\ assignment' = [assignment EXCEPT !.returnedAt = r]
       /\ RenderWith(assignment')
  /\ UNCHANGED zone
  /\ UNCHANGED stockVars
  /\ UNCHANGED refreshVars
  /\ UNCHANGED returnVars
  /\ UNCHANGED dialogVars
  /\ UNCHANGED inventoryVars
  /\ UNCHANGED stockFormVars
  /\ UNCHANGED deleteVars
  /\ UNCHANGED sessionVars
  /\ UNCHANGED createVars
  /\ UNCHANGED employeeVars

\* the mutant's derivation writes the overdue outcome back into the snapshot
RerenderWritingBack ==
  /\ assignment.loaded
  /\ view.phase # "threw"
  /\ RenderWith(assignment)
  /\ assignment' = [assignment EXCEPT !.expectedReturnAt =
                      IF view'.isOverdue THEN Unset ELSE @]
  /\ UNCHANGED zone
  /\ UNCHANGED stockVars
  /\ UNCHANGED refreshVars
  /\ UNCHANGED returnVars
  /\ UNCHANGED dialogVars
  /\ UNCHANGED inventoryVars
  /\ UNCHANGED stockFormVars
  /\ UNCHANGED deleteVars
  /\ UNCHANGED sessionVars
  /\ UNCHANGED createVars
  /\ UNCHANGED employeeVars
\* the page re-renders with the snapshot it holds
Rerender ==
  /\ assignment.loaded
  /\ view.phase # "threw"
  /\ RenderWith(assignment)
  /\ UNCHANGED <<zone, assignment>>
  /\ UNCHANGED stockVars
  /\ UNCHANGED refreshVars
  /\ UNCHANGED returnVars
  /\ UNCHANGED dialogVars
  /\ UNCHANGED inventoryVars
  /\ UNCHANGED stockFormVars
  /\ UNCHANGED deleteVars
  /\ UNCHANGED sessionVars
  /\ UNCHANGED createVars
  /\ UNCHANGED employeeVars

\* the products query resolves and the Stock Status cell renders
FetchProducts ==
  /\ \E p \in Products :
       /\ product' = p
       /\ badge' = getStockBadge(p.stockInfo)
  /\ UNCHANGED <<lowRow, lowCell>>
  /\ UNCHANGED assignVars
  /\ UNCHANGED refreshVars
  /\ UNCHANGED returnVars
  /\ UNCHANGED dialogVars
  /\ UNCHANGED inventoryVars
  /\ UNCHANGED stockFormVars
  /\ UNCHANGED deleteVars
  /\ UNCHANGED sessionVars
  /\ UNCHANGED createVars
  /\ UNCHANGED employeeVars

\* the dashboard stock summary resolves and the low-stock table renders
FetchStockSummary ==
  /\ \E row \in LowRows :
       /\ lowRow' = row
       /\ lowCell' = lowStockCell(row)
  /\ UNCHANGED <<product, badge>>
  /\ UNCHANGED assignVars
  /\ UNCHANGED refreshVars
  /\ UNCHANGED returnVars
  /\ UNCHANGED dialogVars
  /\ UNCHANGED inventoryVars
  /\ UNCHANGED stockFormVars
  /\ UNCHANGED deleteVars
  /\ UNCHANGED sessionVars
  /\ UNCHANGED createVars
  /\ UNCHANGED employeeVars

\* the view mounts and its query starts fetching
MountView ==
  /\ rfView = "none"
  /\ \E v \in Views : rfView' = v
  /\ rfFetch' = SentFetch
  /\ UNCHANGED <<rfServer, rfShown, rfMut, rfAcked>>
  /\ UNCHANGED <<assignVars, stockVars, returnVars, dialogVars, inventoryVars>>
  /\ UNCHANGED stockFormVars
  /\ UNCHANGED deleteVars
  /\ UNCHANGED sessionVars
  /\ UNCHANGED createVars
  /\ UNCHANGED employeeVars

\* the query request reaches the server, which answers with its current data
FetchAnswered ==
  /\ rfFetch.st = "sent"
  /\ rfFetch' = [st |-> "answered", sees |-> rfServer]
  /\ UNCHANGED <<rfView, rfServer, rfShown, rfMut, rfAcked>>
  /\ UNCHANGED <<assignVars, stockVars, returnVars, dialogVars, inventoryVars>>
  /\ UNCHANGED stockFormVars
  /\ UNCHANGED deleteVars
  /\ UNCHANGED sessionVars
  /\ UNCHANGED createVars
  /\ UNCHANGED employeeVars

\* the answer arrives and the view renders it
FetchCompletes ==
  /\ rfFetch.st = "answered"
  /\ rfShown' = rfFetch.sees
  /\ rfFetch' = IdleFetch
  /\ UNCHANGED <<rfView, rfServer, rfMut, rfAcked>>
  /\ UNCHANGED <<assignVars, stockVars, returnVars, dialogVars, inventoryVars>>
  /\ UNCHANGED stockFormVars
  /\ UNCHANGED deleteVars
  /\ UNCHANGED sessionVars
  /\ UNCHANGED createVars
  /\ UNCHANGED employeeVars

\* the query fails: the view renders its error block instead of the data
FetchFails ==
  /\ rfFetch.st # "idle"
  /\ rfShown' = NoData
  /\ rfFetch' = IdleFetch
  /\ UNCHANGED <<rfView, rfServer, rfMut, rfAcked>>
  /\ UNCHANGED <<assignVars, stockVars, returnVars, dialogVars, inventoryVars>>
  /\ UNCHANGED stockFormVars
  /\ UNCHANGED deleteVars
  /\ UNCHANGED sessionVars
  /\ UNCHANGED createVars
  /\ UNCHANGED employeeVars

\* Refresh button / refetch on window focus: the running request is replaced
UserRefetch ==
  /\ rfView # "none"
  /\ rfFetch' = SentFetch
  /\ UNCHANGED <<rfView, rfServer, rfShown, rfMut, rfAcked>>
  /\ UNCHANGED <<assignVars, stockVars, returnVars, dialogVars, inventoryVars>>
  /\ UNCHANGED stockFormVars
  /\ UNCHANGED deleteVars
  /\ UNCHANGED sessionVars
  /\ UNCHANGED createVars
  /\ UNCHANGED employeeVars

\* another client changes the server data
ForeignChange ==
  /\ rfView # "none"
  /\ rfServer < MaxVersion
  /\ rfServer' = rfServer + 1
  /\ UNCHANGED <<rfView, rfShown, rfFetch, rfMut, rfAcked>>
  /\ UNCHANGED <<assignVars, stockVars, returnVars, dialogVars, inventoryVars>>
  /\ UNCHANGED stockFormVars
  /\ UNCHANGED deleteVars
  /\ UNCHANGED sessionVars
  /\ UNCHANGED createVars
  /\ UNCHANGED employeeVars

\* a dialog of the view submits one of its mutations
SubmitMutation ==
  /\ rfView # "none"
  /\ rfShown # NoData
  /\ rfMut.st = "idle"
  /\ \E kind \in MutationsOf(rfView) :
       rfMut' = [st |-> "sent", kind |-> kind, ver |-> 0]
  /\ UNCHANGED <<rfView, rfServer, rfShown, rfFetch, rfAcked>>
  /\ UNCHANGED <<assignVars, stockVars, returnVars, dialogVars, inventoryVars>>
  /\ UNCHANGED stockFormVars
  /\ UNCHANGED deleteVars
  /\ UNCHANGED sessionVars
  /\ UNCHANGED createVars
  /\ UNCHANGED employeeVars

\* the server applies the mutation
ServerApplies ==
  /\ rfMut.st = "sent"
  /\ rfServer < MaxVersion
  /\ rfServer' = rfServer + 1
  /\ rfMut' = [rfMut EXCEPT !.st = "applied", !.ver = rfServer + 1]
  /\ UNCHANGED <<rfView, rfShown, rfFetch, rfAcked>>
  /\ UNCHANGED <<assignVars, stockVars, returnVars, dialogVars, inventoryVars>>
  /\ UNCHANGED stockFormVars
  /\ UNCHANGED deleteVars
  /\ UNCHANGED sessionVars
  /\ UNCHANGED createVars
  /\ UNCHANGED employeeVars

\* onSuccess of the mutation
MutationSucceeds ==
  /\ rfMut.st = "applied"
  /\ rfAcked' = rfMut.ver
  /\ rfMut' = IdleMut
  /\ rfFetch' = IF RefreshesView(rfView, rfMut.kind) THEN SentFetch
                ELSE rfFetch
  /\ UNCHANGED <<rfView, rfServer, rfShown>>
  /\ UNCHANGED <<assignVars, stockVars, returnVars, dialogVars, inventoryVars>>
  /\ UNCHANGED stockFormVars
  /\ UNCHANGED deleteVars
  /\ UNCHANGED sessionVars
  /\ UNCHANGED createVars
  /\ UNCHANGED employeeVars

\* onError of the mutation: a toast, nothing else
MutationFails ==
  /\ rfMut.st = "sent"
  /\ rfMut' = IdleMut
  /\ UNCHANGED <<rfView, rfServer, rfShown, rfFetch, rfAcked>>
  /\ UNCHANGED <<assignVars, stockVars, returnVars, dialogVars, inventoryVars>>
  /\ UNCHANGED stockFormVars
  /\ UNCHANGED deleteVars
  /\ UNCHANGED sessionVars
  /\ UNCHANGED createVars
  /\ UNCHANGED employeeVars

\* ProductAssignedTable mounts and its query starts fetching
PatMount ==
  /\ patShown.st = "unmounted"
  /\ patShown' = [st |-> "loading", rows |-> {}]
  /\ patFetch' = [st |-> "sent", sees |-> {}]
  /\ UNCHANGED <<patServer, patDialog, patCaptured, patQr, patMut, patReturned>>
  /\ UNCHANGED <<assignVars, stockVars, refreshVars, dialogVars, inventoryVars>>
  /\ UNCHANGED stockFormVars
  /\ UNCHANGED deleteVars
  /\ UNCHANGED sessionVars
  /\ UNCHANGED createVars
  /\ UNCHANGED employeeVars

PatFetchAnswered ==
  /\ patFetch.st = "sent"
  /\ patFetch' = [st |-> "answered", sees |-> patServer]
  /\ UNCHANGED <<patServer, patShown, patDialog, patCaptured, patQr, patMut,
                 patReturned>>
  /\ UNCHANGED <<assignVars, stockVars, refreshVars, dialogVars, inventoryVars>>
  /\ UNCHANGED stockFormVars
  /\ UNCHANGED deleteVars
  /\ UNCHANGED sessionVars
  /\ UNCHANGED createVars
  /\ UNCHANGED employeeVars

PatFetchCompletes ==
  /\ patFetch.st = "answered"
  /\ patShown' = [st |-> "data", rows |-> patFetch.sees]
  /\ patFetch' = PatIdleFetch
  /\ UNCHANGED <<patServer, patDialog, patCaptured, patQr, patMut, patReturned>>
  /\ UNCHANGED <<assignVars, stockVars, refreshVars, dialogVars, inventoryVars>>
  /\ UNCHANGED stockFormVars
  /\ UNCHANGED deleteVars
  /\ UNCHANGED sessionVars
  /\ UNCHANGED createVars
  /\ UNCHANGED employeeVars

\* if (error): the error block replaces the table
PatFetchFails ==
  /\ patFetch.st # "idle"
  /\ patShown' = [st |-> "error", rows |-> {}]
  /\ patFetch' = PatIdleFetch
  /\ UNCHANGED <<patServer, patDialog, patCaptured, patQr, patMut, patReturned>>
  /\ UNCHANGED <<assignVars, stockVars, refreshVars, dialogVars, inventoryVars>>
  /\ UNCHANGED stockFormVars
  /\ UNCHANGED deleteVars
  /\ UNCHANGED sessionVars
  /\ UNCHANGED createVars
  /\ UNCHANGED employeeVars

\* the Refresh button
PatRefetch ==
  /\ patShown.st \in {"data", "error"}
  /\ ~patDialog.open
  /\ ~patDeleteDialog.open
  /\ patFetch' = [st |-> "sent", sees |-> {}]
  /\ UNCHANGED <<patServer, patShown, patDialog, patCaptured, patQr, patMut,
                 patReturned>>
  /\ UNCHANGED <<assignVars, stockVars, refreshVars, dialogVars, inventoryVars>>
  /\ UNCHANGED stockFormVars
  /\ UNCHANGED deleteVars
  /\ UNCHANGED sessionVars
  /\ UNCHANGED createVars
  /\ UNCHANGED employeeVars

\* the QR button of a row: isGeneratingAssignmentQr changes, so the columns
\* are memoized again and close over the returnDialog of that render
generateAssignmentQr(id) ==
  /\ RowClickable(id)
  /\ ~patQr
  /\ patQr' = TRUE
  /\ patCaptured' = patDialog
  /\ UNCHANGED <<patServer, patShown, patFetch, patDialog, patMut, patReturned>>
  /\ UNCHANGED <<assignVars, stockVars, refreshVars, dialogVars, inventoryVars>>
  /\ UNCHANGED stockFormVars
  /\ UNCHANGED deleteVars
  /\ UNCHANGED sessionVars
  /\ UNCHANGED createVars
  /\ UNCHANGED employeeVars

QrSettles ==
  /\ patQr
  /\ patQr' = FALSE
  /\ patCaptured' = patDialog
  /\ UNCHANGED <<patServer, patShown, patFetch, patDialog, patMut, patReturned>>
  /\ UNCHANGED <<assignVars, stockVars, refreshVars, dialogVars, inventoryVars>>
  /\ UNCHANGED stockFormVars
  /\ UNCHANGED deleteVars
  /\ UNCHANGED sessionVars
  /\ UNCHANGED createVars
  /\ UNCHANGED employeeVars

\* the mutant opens the dialog without storing the clicked assignment
handleReturnClickWithoutAssignment(id) ==
  /\ RowClickable(id)
  /\ patDialog' = [patCaptured EXCEPT !.open = TRUE]
  /\ UNCHANGED <<patServer, patShown, patFetch, patCaptured, patQr, patMut,
                 patReturned>>
  /\ UNCHANGED <<assignVars, stockVars, refreshVars, dialogVars, inventoryVars>>
  /\ UNCHANGED stockFormVars
  /\ UNCHANGED deleteVars
  /\ UNCHANGED sessionVars
  /\ UNCHANGED createVars
  /\ UNCHANGED employeeVars
\* the Return button of a row
handleReturnClick(id) ==
  /\ RowClickable(id)
  /\ patDialog' = [patCaptured EXCEPT !.open = TRUE, !.assignment = id]
  /\ UNCHANGED <<patServer, patShown, patFetch, patCaptured, patQr, patMut,
                 patReturned>>
  /\ UNCHANGED <<assignVars, stockVars, refreshVars, dialogVars, inventoryVars>>
  /\ UNCHANGED stockFormVars
  /\ UNCHANGED deleteVars
  /\ UNCHANGED sessionVars
  /\ UNCHANGED createVars
  /\ UNCHANGED employeeVars

\* the condition Select of the dialog
SelectCondition(c) ==
  /\ patDialog.open /\ patDialog.assignment # 0
  /\ patDialog.condition # c
  /\ patDialog' = [patDialog EXCEPT !.condition = c]
  /\ UNCHANGED <<patServer, patShown, patFetch, patCaptured, patQr, patMut,
                 patReturned>>
  /\ UNCHANGED <<assignVars, stockVars, refreshVars, dialogVars, inventoryVars>>
  /\ UNCHANGED stockFormVars
  /\ UNCHANGED deleteVars
  /\ UNCHANGED sessionVars
  /\ UNCHANGED createVars
  /\ UNCHANGED employeeVars

\* the inventory-status Select of the dialog
SelectInventoryStatus(st) ==
  /\ patDialog.open /\ patDialog.assignment # 0
  /\ patDialog.inventoryStatus # st
  /\ patDialog' = [patDialog EXCEPT !.inventoryStatus = st]
  /\ UNCHANGED <<patServer, patShown, patFetch, patCaptured, patQr, patMut,
                 patReturned>>
  /\ UNCHANGED <<assignVars, stockVars, refreshVars, dialogVars, inventoryVars>>
  /\ UNCHANGED stockFormVars
  /\ UNCHANGED deleteVars
  /\ UNCHANGED sessionVars
  /\ UNCHANGED createVars
  /\ UNCHANGED employeeVars

\* Cancel, or closing the dialog
resetReturnDialog ==
  /\ patDialog.open
  /\ patDialog' = ClosedReturnDialog
  /\ UNCHANGED <<patServer, patShown, patFetch, patCaptured, patQr, patMut,
                 patReturned>>
  /\ UNCHANGED <<assignVars, stockVars, refreshVars, dialogVars, inventoryVars>>
  /\ UNCHANGED stockFormVars
  /\ UNCHANGED deleteVars
  /\ UNCHANGED sessionVars
  /\ UNCHANGED createVars
  /\ UNCHANGED employeeVars

\* Confirm Return
handleReturnSubmit ==
  /\ patDialog.open
  /\ patMut.st = "idle"
  /\ patDialog.assignment # 0
  /\ patMut' = [st |-> "sent", id |-> patDialog.assignment]
  /\ UNCHANGED <<patServer, patShown, patFetch, patDialog, patCaptured, patQr,
                 patReturned>>
  /\ UNCHANGED <<assignVars, stockVars, refreshVars, dialogVars, inventoryVars>>
  /\ UNCHANGED stockFormVars
  /\ UNCHANGED deleteVars
  /\ UNCHANGED sessionVars
  /\ UNCHANGED createVars
  /\ UNCHANGED employeeVars

\* the server returns the item, or rejects an assignment that is not active
ReturnHandled ==
  /\ patMut.st = "sent"
  /\ patMut' = [patMut EXCEPT
                  !.st = IF patMut.id \in patServer THEN "ok" ELSE "err"]
  /\ patServer' = patServer \ {patMut.id}
  /\ UNCHANGED <<patShown, patFetch, patDialog, patCaptured, patQr, patReturned>>
  /\ UNCHANGED <<assignVars, stockVars, refreshVars, dialogVars, inventoryVars>>
  /\ UNCHANGED stockFormVars
  /\ UNCHANGED deleteVars
  /\ UNCHANGED sessionVars
  /\ UNCHANGED createVars
  /\ UNCHANGED employeeVars

\* the request is lost before it reaches the server
ReturnLost ==
  /\ patMut.st = "sent"
  /\ patMut' = [patMut EXCEPT !.st = "err"]
  /\ UNCHANGED <<patServer, patShown, patFetch, patDialog, patCaptured, patQr,
                 patReturned>>
  /\ UNCHANGED <<assignVars, stockVars, refreshVars, dialogVars, inventoryVars>>
  /\ UNCHANGED stockFormVars
  /\ UNCHANGED deleteVars
  /\ UNCHANGED sessionVars
  /\ UNCHANGED createVars
  /\ UNCHANGED employeeVars

\* returnMutation.onSuccess
ReturnSucceeds ==
  /\ patMut.st = "ok"
  /\ patReturned' = patReturned \cup {patMut.id}
  /\ patMut' = PatIdleMut
  /\ patFetch' = [st |-> "sent", sees |-> {}]
  /\ patDialog' = ClosedReturnDialog
  /\ UNCHANGED <<patServer, patShown, patCaptured, patQr>>
  /\ UNCHANGED <<assignVars, stockVars, refreshVars, dialogVars, inventoryVars>>
  /\ UNCHANGED stockFormVars
  /\ UNCHANGED deleteVars
  /\ UNCHANGED sessionVars
  /\ UNCHANGED createVars
  /\ UNCHANGED employeeVars

\* returnMutation.onError
ReturnFails ==
  /\ patMut.st = "err"
  /\ patMut' = PatIdleMut
  /\ UNCHANGED <<patServer, patShown, patFetch, patDialog, patCaptured, patQr,
                 patReturned>>
  /\ UNCHANGED <<assignVars, stockVars, refreshVars, dialogVars, inventoryVars>>
  /\ UNCHANGED stockFormVars
  /\ UNCHANGED deleteVars
  /\ UNCHANGED sessionVars
  /\ UNCHANGED createVars
  /\ UNCHANGED employeeVars

\* the Assign button of a row, up to the await
handleAssignClick(p) ==
  /\ TableClickable
  /\ selectedProduct' = p
  /\ inventoryFetches' = inventoryFetches \cup {p}
  /\ UNCHANGED <<selectedEmployee, selectedInventoryId, availableInventory,
                 assignDialogOpen, addStockDialogOpen, assignRequest>>
  /\ UNCHANGED <<assignVars, stockVars, refreshVars, returnVars,
                 inventoryVars>>
  /\ UNCHANGED stockFormVars
  /\ UNCHANGED deleteVars
  /\ UNCHANGED sessionVars
  /\ UNCHANGED createVars
  /\ UNCHANGED employeeVars

\* apiGetAvailableInventory(p) resolves and handleAssignClick continues
InventoryFetched(p) ==
  /\ p \in inventoryFetches
  /\ \E list \in SUBSET InventoryOf(p) : availableInventory' = list
  /\ assignDialogOpen' = TRUE
  /\ inventoryFetches' = inventoryFetches \ {p}
  /\ UNCHANGED <<selectedProduct, selectedEmployee, selectedInventoryId,
                 addStockDialogOpen, assignRequest>>
  /\ UNCHANGED <<assignVars, stockVars, refreshVars, returnVars,
                 inventoryVars>>
  /\ UNCHANGED stockFormVars
  /\ UNCHANGED deleteVars
  /\ UNCHANGED sessionVars
  /\ UNCHANGED createVars
  /\ UNCHANGED employeeVars

\* apiGetAvailableInventory(p) rejects: the catch block, then the dialog opens
InventoryFetchFailed(p) ==
  /\ p \in inventoryFetches
  /\ availableInventory' = {}
  /\ assignDialogOpen' = TRUE
  /\ inventoryFetches' = inventoryFetches \ {p}
  /\ UNCHANGED <<selectedProduct, selectedEmployee, selectedInventoryId,
                 addStockDialogOpen, assignRequest>>
  /\ UNCHANGED <<assignVars, stockVars, refreshVars, returnVars,
                 inventoryVars>>
  /\ UNCHANGED stockFormVars
  /\ UNCHANGED deleteVars
  /\ UNCHANGED sessionVars
  /\ UNCHANGED createVars
  /\ UNCHANGED employeeVars

\* the Stock button of a row
handleAddStockClick(p) ==
  /\ TableClickable
  /\ selectedProduct' = p
  /\ addStockDialogOpen' = TRUE
  /\ UNCHANGED <<selectedEmployee, selectedInventoryId, availableInventory,
                 assignDialogOpen, inventoryFetches, assignRequest>>
  /\ UNCHANGED <<assignVars, stockVars, refreshVars, returnVars,
                 inventoryVars>>
  /\ UNCHANGED stockFormVars
  /\ UNCHANGED deleteVars
  /\ UNCHANGED sessionVars
  /\ UNCHANGED createVars
  /\ UNCHANGED employeeVars

\* Cancel or close of the Assign dialog
resetAssignmentForm ==
  /\ assignDialogOpen
  /\ selectedProduct' = 0
  /\ selectedEmployee' = 0
  /\ selectedInventoryId' = 0
  /\ availableInventory' = {}
  /\ assignDialogOpen' = FALSE
  /\ UNCHANGED <<addStockDialogOpen, inventoryFetches, assignRequest>>
  /\ UNCHANGED <<assignVars, stockVars, refreshVars, returnVars,
                 inventoryVars>>
  /\ UNCHANGED stockFormVars
  /\ UNCHANGED deleteVars
  /\ UNCHANGED sessionVars
  /\ UNCHANGED createVars
  /\ UNCHANGED employeeVars

\* Cancel or close of the Add Stock dialog
resetAddStockForm ==
  /\ addStockDialogOpen
  /\ selectedProduct' = 0
  /\ stockQuantity' = 1
  /\ stockSerialNumbers' = <<"">>
  /\ addStockDialogOpen' = FALSE
  /\ UNCHANGED <<selectedEmployee, selectedInventoryId, availableInventory,
                 assignDialogOpen, inventoryFetches, assignRequest,
                 addStockRequest>>
  /\ UNCHANGED <<assignVars, stockVars, refreshVars, returnVars,
                 inventoryVars>>
  /\ UNCHANGED deleteVars
  /\ UNCHANGED sessionVars
  /\ UNCHANGED createVars
  /\ UNCHANGED employeeVars

\* the Employee Select of the Assign dialog
SelectEmployee(e) ==
  /\ assignDialogOpen /\ selectedProduct # 0
  /\ selectedEmployee' = e
  /\ UNCHANGED <<selectedProduct, selectedInventoryId, availableInventory,
                 assignDialogOpen, addStockDialogOpen, inventoryFetches,
                 assignRequest>>
  /\ UNCHANGED <<assignVars, stockVars, refreshVars, returnVars,
                 inventoryVars>>
  /\ UNCHANGED stockFormVars
  /\ UNCHANGED deleteVars
  /\ UNCHANGED sessionVars
  /\ UNCHANGED createVars
  /\ UNCHANGED employeeVars

\* the clearable Specific Item Select, rendered when the list is not empty
SelectInventoryItem(i) ==
  /\ assignDialogOpen /\ selectedProduct # 0
  /\ availableInventory # {}
  /\ i \in availableInventory \cup {0}
  /\ selectedInventoryId' = i
  /\ UNCHANGED <<selectedProduct, selectedEmployee, availableInventory,
                 assignDialogOpen, addStockDialogOpen, inventoryFetches,
                 assignRequest>>
  /\ UNCHANGED <<assignVars, stockVars, refreshVars, returnVars,
                 inventoryVars>>
  /\ UNCHANGED stockFormVars
  /\ UNCHANGED deleteVars
  /\ UNCHANGED sessionVars
  /\ UNCHANGED createVars
  /\ UNCHANGED employeeVars

\* Confirm Assignment
handleAssignSubmit ==
  /\ assignDialogOpen
  /\ assignRequest.st = "idle"
  /\ ~(selectedProduct = 0 \/ selectedEmployee = 0)
  /\ LET body == apiAssignProduct([productId |-> selectedProduct,
                                   employeeId |-> selectedEmployee,
                                   inventoryId |-> selectedInventoryId,
                                   autoSelect |-> Not(selectedInventoryId)])
     IN assignRequest' =
          [st |-> "sent", productId |-> body.productId,
           employeeId |-> body.employeeId, inventoryId |-> body.inventoryId,
           autoSelect |-> body.autoSelect]
  /\ UNCHANGED <<selectedProduct, selectedEmployee, selectedInventoryId,
                 availableInventory, assignDialogOpen, addStockDialogOpen,
                 inventoryFetches>>
  /\ UNCHANGED <<assignVars, stockVars, refreshVars, returnVars,
                 inventoryVars>>
  /\ UNCHANGED stockFormVars
  /\ UNCHANGED deleteVars
  /\ UNCHANGED sessionVars
  /\ UNCHANGED createVars
  /\ UNCHANGED employeeVars

\* assignMutation.onSuccess: toast, invalidate, resetAssignmentForm
AssignSucceeds ==
  /\ assignRequest.st = "sent"
  /\ assignRequest' = NoRequest
  /\ selectedProduct' = 0
  /\ selectedEmployee' = 0
  /\ selectedInventoryId' = 0
  /\ availableInventory' = {}
  /\ assignDialogOpen' = FALSE
  /\ UNCHANGED <<addStockDialogOpen, inventoryFetches>>
  /\ UNCHANGED <<assignVars, stockVars, refreshVars, returnVars,
                 inventoryVars>>
  /\ UNCHANGED stockFormVars
  /\ UNCHANGED deleteVars
  /\ UNCHANGED sessionVars
  /\ UNCHANGED createVars
  /\ UNCHANGED employeeVars

\* assignMutation.onError: toast
AssignFails ==
  /\ assignRequest.st = "sent"
  /\ assignRequest' = NoRequest
  /\ UNCHANGED <<selectedProduct, selectedEmployee, selectedInventoryId,
                 availableInventory, assignDialogOpen, addStockDialogOpen,
                 inventoryFetches>>
  /\ UNCHANGED <<assignVars, stockVars, refreshVars, returnVars,
                 inventoryVars>>
  /\ UNCHANGED stockFormVars
  /\ UNCHANGED deleteVars
  /\ UNCHANGED sessionVars
  /\ UNCHANGED createVars
  /\ UNCHANGED employeeVars

\* the product query delivers a snapshot (first load, refetch(), window focus)
SnapshotArrives ==
  /\ \E inv \in Snapshots : pdInventory' = inv
  /\ pdRefetching' = FALSE
  /\ UNCHANGED <<selectedInventory, selectedInventoryIds, editInventoryDialog,
                 deleteInventoryDialog, bulkDeleteDialog, inventorySearch,
                 inventoryRequest>>
  /\ UNCHANGED <<assignVars, stockVars, refreshVars, returnVars, dialogVars>>
  /\ UNCHANGED stockFormVars
  /\ UNCHANGED deleteVars
  /\ UNCHANGED sessionVars
  /\ UNCHANGED createVars
  /\ UNCHANGED employeeVars

setInventorySearch(term) ==
  /\ NoInventoryDialog
  /\ DOMAIN pdInventory # {}
  /\ inventorySearch # term
  /\ inventorySearch' = term
  /\ UNCHANGED <<pdInventory, pdRefetching, selectedInventory,
                 selectedInventoryIds, editInventoryDialog,
                 deleteInventoryDialog, bulkDeleteDialog, inventoryRequest>>
  /\ UNCHANGED <<assignVars, stockVars, refreshVars, returnVars, dialogVars>>
  /\ UNCHANGED stockFormVars
  /\ UNCHANGED deleteVars
  /\ UNCHANGED sessionVars
  /\ UNCHANGED createVars
  /\ UNCHANGED employeeVars

handleSelectInventoryItem(id) ==
  /\ RowEnabled(id)
  /\ selectedInventoryIds' =
       IF id \notin selectedInventoryIds
       THEN selectedInventoryIds \cup {id}
       ELSE selectedInventoryIds \ {id}
  /\ UNCHANGED <<pdInventory, pdRefetching, selectedInventory,
                 editInventoryDialog, deleteInventoryDialog, bulkDeleteDialog,
                 inventorySearch, inventoryRequest>>
  /\ UNCHANGED <<assignVars, stockVars, refreshVars, returnVars, dialogVars>>
  /\ UNCHANGED stockFormVars
  /\ UNCHANGED deleteVars
  /\ UNCHANGED sessionVars
  /\ UNCHANGED createVars
  /\ UNCHANGED employeeVars

\* the header checkbox; it passes its new checked state
handleSelectAllInventoryItems ==
  /\ NoInventoryDialog
  /\ SelectableRows # {}
  /\ selectedInventoryIds' =
       IF ~HeaderChecked THEN DOMAIN pdInventory \ AssignedIn(pdInventory)
       ELSE {}
  /\ UNCHANGED <<pdInventory, pdRefetching, selectedInventory,
                 editInventoryDialog, deleteInventoryDialog, bulkDeleteDialog,
                 inventorySearch, inventoryRequest>>
  /\ UNCHANGED <<assignVars, stockVars, refreshVars, returnVars, dialogVars>>
  /\ UNCHANGED stockFormVars
  /\ UNCHANGED deleteVars
  /\ UNCHANGED sessionVars
  /\ UNCHANGED createVars
  /\ UNCHANGED employeeVars

handleEditInventory(id) ==
  /\ RowEnabled(id)
  /\ selectedInventory' = [id |-> id, status |-> pdInventory[id]]
  /\ editInventoryDialog' = TRUE
  /\ UNCHANGED <<pdInventory, pdRefetching, selectedInventoryIds,
                 deleteInventoryDialog, bulkDeleteDialog, inventorySearch,
                 inventoryRequest>>
  /\ UNCHANGED <<assignVars, stockVars, refreshVars, returnVars, dialogVars>>
  /\ UNCHANGED stockFormVars
  /\ UNCHANGED deleteVars
  /\ UNCHANGED sessionVars
  /\ UNCHANGED createVars
  /\ UNCHANGED employeeVars

\* the Status Select of the Edit Inventory dialog
SelectEditStatus(st) ==
  /\ editInventoryDialog /\ selectedInventory # NoItem
  /\ selectedInventory.status # st
  /\ selectedInventory' = [selectedInventory EXCEPT !.status = st]
  /\ UNCHANGED <<pdInventory, pdRefetching, selectedInventoryIds,
                 editInventoryDialog, deleteInventoryDialog, bulkDeleteDialog,
                 inventorySearch, inventoryRequest>>
  /\ UNCHANGED <<assignVars, stockVars, refreshVars, returnVars, dialogVars>>
  /\ UNCHANGED stockFormVars
  /\ UNCHANGED deleteVars
  /\ UNCHANGED sessionVars
  /\ UNCHANGED createVars
  /\ UNCHANGED employeeVars

\* Cancel or close of the Edit Inventory dialog
CloseEditInventoryDialog ==
  /\ editInventoryDialog
  /\ editInventoryDialog' = FALSE
  /\ UNCHANGED <<pdInventory, pdRefetching, selectedInventory,
                 selectedInventoryIds, deleteInventoryDialog, bulkDeleteDialog,
                 inventorySearch, inventoryRequest>>
  /\ UNCHANGED <<assignVars, stockVars, refreshVars, returnVars, dialogVars>>
  /\ UNCHANGED stockFormVars
  /\ UNCHANGED deleteVars
  /\ UNCHANGED sessionVars
  /\ UNCHANGED createVars
  /\ UNCHANGED employeeVars

handleUpdateInventorySubmit ==
  /\ editInventoryDialog
  /\ inventoryRequest.kind = "none"
  /\ selectedInventory # NoItem
  /\ inventoryRequest' =
       [kind |-> "update", ids |-> {selectedInventory.id},
        status |-> selectedInventory.status,
        assigned |-> {selectedInventory.id} \cap AssignedIn(pdInventory)]
  /\ UNCHANGED <<pdInventory, pdRefetching, selectedInventory,
                 selectedInventoryIds, editInventoryDialog,
                 deleteInventoryDialog, bulkDeleteDialog, inventorySearch>>
  /\ UNCHANGED <<assignVars, stockVars, refreshVars, returnVars, dialogVars>>
  /\ UNCHANGED stockFormVars
  /\ UNCHANGED deleteVars
  /\ UNCHANGED sessionVars
  /\ UNCHANGED createVars
  /\ UNCHANGED employeeVars

handleDeleteInventory(id) ==
  /\ RowEnabled(id)
  /\ selectedInventory' = [id |-> id, status |-> pdInventory[id]]
  /\ deleteInventoryDialog' = TRUE
  /\ UNCHANGED <<pdInventory, pdRefetching, selectedInventoryIds,
                 editInventoryDialog, bulkDeleteDialog, inventorySearch,
                 inventoryRequest>>
  /\ UNCHANGED <<assignVars, stockVars, refreshVars, returnVars, dialogVars>>
  /\ UNCHANGED stockFormVars
  /\ UNCHANGED deleteVars
  /\ UNCHANGED sessionVars
  /\ UNCHANGED createVars
  /\ UNCHANGED employeeVars

\* Cancel or close of the Delete Inventory dialog
CloseDeleteInventoryDialog ==
  /\ deleteInventoryDialog
  /\ deleteInventoryDialog' = FALSE
  /\ UNCHANGED <<pdInventory, pdRefetching, selectedInventory,
                 selectedInventoryIds, editInventoryDialog, bulkDeleteDialog,
                 inventorySearch, inventoryRequest>>
  /\ UNCHANGED <<assignVars, stockVars, refreshVars, returnVars, dialogVars>>
  /\ UNCHANGED stockFormVars
  /\ UNCHANGED deleteVars
  /\ UNCHANGED sessionVars
  /\ UNCHANGED createVars
  /\ UNCHANGED employeeVars

handleDeleteInventorySubmit ==
  /\ deleteInventoryDialog
  /\ inventoryRequest.kind = "none"
  /\ selectedInventory # NoItem
  /\ inventoryRequest' =
       [kind |-> "delete", ids |-> {selectedInventory.id}, status |-> "NONE",
        assigned |-> {selectedInventory.id} \cap AssignedIn(pdInventory)]
  /\ UNCHANGED <<pdInventory, pdRefetching, selectedInventory,
                 selectedInventoryIds, editInventoryDialog,
                 deleteInventoryDialog, bulkDeleteDialog, inventorySearch>>
  /\ UNCHANGED <<assignVars, stockVars, refreshVars, returnVars, dialogVars>>
  /\ UNCHANGED stockFormVars
  /\ UNCHANGED deleteVars
  /\ UNCHANGED sessionVars
  /\ UNCHANGED createVars
  /\ UNCHANGED employeeVars

\* the Delete Selected button
handleBulkDeleteInventory ==
  /\ NoInventoryDialog
  /\ ~(Cardinality(selectedInventoryIds) = 0)
  /\ bulkDeleteDialog' = TRUE
  /\ UNCHANGED <<pdInventory, pdRefetching, selectedInventory,
                 selectedInventoryIds, editInventoryDialog,
                 deleteInventoryDialog, inventorySearch, inventoryRequest>>
  /\ UNCHANGED <<assignVars, stockVars, refreshVars, returnVars, dialogVars>>
  /\ UNCHANGED stockFormVars
  /\ UNCHANGED deleteVars
  /\ UNCHANGED sessionVars
  /\ UNCHANGED createVars
  /\ UNCHANGED employeeVars

\* Cancel or close of the bulk delete dialog
CloseBulkDeleteDialog ==
  /\ bulkDeleteDialog
  /\ bulkDeleteDialog' = FALSE
  /\ UNCHANGED <<pdInventory, pdRefetching, selectedInventory,
                 selectedInventoryIds, editInventoryDialog,
                 deleteInventoryDialog, inventorySearch, inventoryRequest>>
  /\ UNCHANGED <<assignVars, stockVars, refreshVars, returnVars, dialogVars>>
  /\ UNCHANGED stockFormVars
  /\ UNCHANGED deleteVars
  /\ UNCHANGED sessionVars
  /\ UNCHANGED createVars
  /\ UNCHANGED employeeVars

handleBulkDeleteSubmit ==
  /\ bulkDeleteDialog
  /\ inventoryRequest.kind = "none"
  /\ ~(Cardinality(selectedInventoryIds) = 0)
  /\ inventoryRequest' =
       [kind |-> "bulk", ids |-> selectedInventoryIds, status |-> "NONE",
        assigned |-> selectedInventoryIds \cap AssignedIn(pdInventory)]
  /\ UNCHANGED <<pdInventory, pdRefetching, selectedInventory,
                 selectedInventoryIds, editInventoryDialog,
                 deleteInventoryDialog, bulkDeleteDialog, inventorySearch>>
  /\ UNCHANGED <<assignVars, stockVars, refreshVars, returnVars, dialogVars>>
  /\ UNCHANGED stockFormVars
  /\ UNCHANGED deleteVars
  /\ UNCHANGED sessionVars
  /\ UNCHANGED createVars
  /\ UNCHANGED employeeVars

\* updateInventory onSuccess
UpdateInventorySucceeds ==
  /\ inventoryRequest.kind = "update"
  /\ inventoryRequest' = NoInventoryRequest
  /\ pdRefetching' = TRUE
  /\ editInventoryDialog' = FALSE
  /\ selectedInventory' = NoItem
  /\ UNCHANGED <<pdInventory, selectedInventoryIds, deleteInventoryDialog,
                 bulkDeleteDialog, inventorySearch>>
  /\ UNCHANGED <<assignVars, stockVars, refreshVars, returnVars, dialogVars>>
  /\ UNCHANGED stockFormVars
  /\ UNCHANGED deleteVars
  /\ UNCHANGED sessionVars
  /\ UNCHANGED createVars
  /\ UNCHANGED employeeVars

\* deleteInventory onSuccess
DeleteInventorySucceeds ==
  /\ inventoryRequest.kind = "delete"
  /\ inventoryRequest' = NoInventoryRequest
  /\ pdRefetching' = TRUE
  /\ deleteInventoryDialog' = FALSE
  /\ selectedInventory' = NoItem
  /\ UNCHANGED <<pdInventory, selectedInventoryIds, editInventoryDialog,
                 bulkDeleteDialog, inventorySearch>>
  /\ UNCHANGED <<assignVars, stockVars, refreshVars, returnVars, dialogVars>>
  /\ UNCHANGED stockFormVars
  /\ UNCHANGED deleteVars
  /\ UNCHANGED sessionVars
  /\ UNCHANGED createVars
  /\ UNCHANGED employeeVars

\* bulkDeleteInventory onSuccess
BulkDeleteSucceeds ==
  /\ inventoryRequest.kind = "bulk"
  /\ inventoryRequest' = NoInventoryRequest
  /\ pdRefetching' = TRUE
  /\ bulkDeleteDialog' = FALSE
  /\ selectedInventoryIds' = {}
  /\ UNCHANGED <<pdInventory, selectedInventory, editInventoryDialog,
                 deleteInventoryDialog, inventorySearch>>
  /\ UNCHANGED <<assignVars, stockVars, refreshVars, returnVars, dialogVars>>
  /\ UNCHANGED stockFormVars
  /\ UNCHANGED deleteVars
  /\ UNCHANGED sessionVars
  /\ UNCHANGED createVars
  /\ UNCHANGED employeeVars

\* onError of the three inventory mutations: a toast
InventoryMutationFails ==
  /\ inventoryRequest.kind # "none"
  /\ inventoryRequest' = NoInventoryRequest
  /\ UNCHANGED <<pdInventory, pdRefetching, selectedInventory,
                 selectedInventoryIds, editInventoryDialog,
                 deleteInventoryDialog, bulkDeleteDialog, inventorySearch>>
  /\ UNCHANGED <<assignVars, stockVars, refreshVars, returnVars, dialogVars>>
  /\ UNCHANGED stockFormVars
  /\ UNCHANGED deleteVars
  /\ UNCHANGED sessionVars
  /\ UNCHANGED createVars
  /\ UNCHANGED employeeVars

\* onChange of the Quantity input
QuantityChange(qty) ==
  /\ addStockDialogOpen /\ selectedProduct # 0
  /\ stockQuantity' = qty
  /\ stockSerialNumbers' = AdjustSerialNumbers(stockSerialNumbers, qty)
  /\ UNCHANGED addStockRequest
  /\ UNCHANGED dialogVars
  /\ UNCHANGED <<assignVars, stockVars, refreshVars, returnVars,
                 inventoryVars>>
  /\ UNCHANGED deleteVars
  /\ UNCHANGED sessionVars
  /\ UNCHANGED createVars
  /\ UNCHANGED employeeVars

\* onChange of the serial number input with the given index (from 1)
SerialNumberEdit(index, text) ==
  /\ addStockDialogOpen /\ selectedProduct # 0
  /\ index \in 1..ToLength(stockQuantity)
  /\ stockSerialNumbers' =
       [i \in 1..(IF index > Len(stockSerialNumbers) THEN index
                  ELSE Len(stockSerialNumbers)) |->
          IF i = index THEN text
          ELSE IF i <= Len(stockSerialNumbers) THEN stockSerialNumbers[i]
          ELSE ""]
  /\ UNCHANGED <<stockQuantity, addStockRequest>>
  /\ UNCHANGED dialogVars
  /\ UNCHANGED <<assignVars, stockVars, refreshVars, returnVars,
                 inventoryVars>>
  /\ UNCHANGED deleteVars
  /\ UNCHANGED sessionVars
  /\ UNCHANGED createVars
  /\ UNCHANGED employeeVars

\* the Add Stock button
handleAddStockSubmit ==
  /\ addStockDialogOpen
  /\ addStockRequest.st = "idle"
  /\ ~(selectedProduct = 0)
  /\ addStockRequest' =
       [st |-> "sent", productId |-> selectedProduct,
        quantity |-> stockQuantity,
        serialNumbers |-> FilledSerialNumbers(stockSerialNumbers)]
  /\ UNCHANGED <<stockQuantity, stockSerialNumbers>>
  /\ UNCHANGED dialogVars
  /\ UNCHANGED <<assignVars, stockVars, refreshVars, returnVars,
                 inventoryVars>>
  /\ UNCHANGED deleteVars
  /\ UNCHANGED sessionVars
  /\ UNCHANGED createVars
  /\ UNCHANGED employeeVars

\* addStockMutation.onSuccess: toast, invalidate, resetAddStockForm
AddStockSucceeds ==
  /\ addStockRequest.st = "sent"
  /\ addStockRequest' = NoStockRequest
  /\ selectedProduct' = 0
  /\ stockQuantity' = 1
  /\ stockSerialNumbers' = <<"">>
  /\ addStockDialogOpen' = FALSE
  /\ UNCHANGED <<selectedEmployee, selectedInventoryId, availableInventory,
                 assignDialogOpen, inventoryFetches, assignRequest>>
  /\ UNCHANGED <<assignVars, stockVars, refreshVars, returnVars,
                 inventoryVars>>
  /\ UNCHANGED deleteVars
  /\ UNCHANGED sessionVars
  /\ UNCHANGED createVars
  /\ UNCHANGED employeeVars

\* addStockMutation.onError: toast
AddStockFails ==
  /\ addStockRequest.st = "sent"
  /\ addStockRequest' = NoStockRequest
  /\ UNCHANGED <<stockQuantity, stockSerialNumbers>>
  /\ UNCHANGED dialogVars
  /\ UNCHANGED <<assignVars, stockVars, refreshVars, returnVars,
                 inventoryVars>>
  /\ UNCHANGED deleteVars
  /\ UNCHANGED sessionVars
  /\ UNCHANGED createVars
  /\ UNCHANGED employeeVars

\* the Delete button of a row
handleDeleteClick(id) ==
  /\ RowClickable(id)
  /\ patDeleteDialog' = [open |-> TRUE, assignment |-> id]
  /\ UNCHANGED patDeleteMut
  /\ UNCHANGED returnVars
  /\ UNCHANGED <<assignVars, stockVars, refreshVars, dialogVars, inventoryVars>>
  /\ UNCHANGED stockFormVars
  /\ UNCHANGED sessionVars
  /\ UNCHANGED createVars
  /\ UNCHANGED employeeVars

\* Cancel or close of the Delete Assignment dialog
CloseDeleteDialog ==
  /\ patDeleteDialog.open
  /\ patDeleteDialog' = ClosedDeleteDialog
  /\ UNCHANGED patDeleteMut
  /\ UNCHANGED returnVars
  /\ UNCHANGED <<assignVars, stockVars, refreshVars, dialogVars, inventoryVars>>
  /\ UNCHANGED stockFormVars
  /\ UNCHANGED sessionVars
  /\ UNCHANGED createVars
  /\ UNCHANGED employeeVars

\* the Delete Assignment button
handleDeleteConfirm ==
  /\ patDeleteDialog.open
  /\ patDeleteMut.st = "idle"
  /\ patDeleteDialog.assignment # 0
  /\ patDeleteMut' = [st |-> "sent", id |-> patDeleteDialog.assignment]
  /\ UNCHANGED patDeleteDialog
  /\ UNCHANGED returnVars
  /\ UNCHANGED <<assignVars, stockVars, refreshVars, dialogVars, inventoryVars>>
  /\ UNCHANGED stockFormVars
  /\ UNCHANGED sessionVars
  /\ UNCHANGED createVars
  /\ UNCHANGED employeeVars

\* the server deletes the assignment, or rejects one that is not active
DeleteHandled ==
  /\ patDeleteMut.st = "sent"
  /\ patDeleteMut' = [patDeleteMut EXCEPT
                        !.st = IF patDeleteMut.id \in patServer THEN "ok"
                               ELSE "err"]
  /\ patServer' = patServer \ {patDeleteMut.id}
  /\ UNCHANGED patDeleteDialog
  /\ UNCHANGED <<patShown, patFetch, patDialog, patCaptured, patQr, patMut,
                 patReturned>>
  /\ UNCHANGED <<assignVars, stockVars, refreshVars, dialogVars, inventoryVars>>
  /\ UNCHANGED stockFormVars
  /\ UNCHANGED sessionVars
  /\ UNCHANGED createVars
  /\ UNCHANGED employeeVars

\* the delete request is lost before it reaches the server
DeleteLost ==
  /\ patDeleteMut.st = "sent"
  /\ patDeleteMut' = [patDeleteMut EXCEPT !.st = "err"]
  /\ UNCHANGED patDeleteDialog
  /\ UNCHANGED returnVars
  /\ UNCHANGED <<assignVars, stockVars, refreshVars, dialogVars, inventoryVars>>
  /\ UNCHANGED stockFormVars
  /\ UNCHANGED sessionVars
  /\ UNCHANGED createVars
  /\ UNCHANGED employeeVars

\* deleteMutation.onSuccess
DeleteSucceeds ==
  /\ patDeleteMut.st = "ok"
  /\ patDeleteMut' = PatIdleMut
  /\ patFetch' = [st |-> "sent", sees |-> {}]
  /\ patDeleteDialog' = ClosedDeleteDialog
  /\ UNCHANGED <<patServer, patShown, patDialog, patCaptured, patQr, patMut,
                 patReturned>>
  /\ UNCHANGED <<assignVars, stockVars, refreshVars, dialogVars, inventoryVars>>
  /\ UNCHANGED stockFormVars
  /\ UNCHANGED sessionVars
  /\ UNCHANGED createVars
  /\ UNCHANGED employeeVars

\* the mutant's onError also closes the dialog
DeleteFailsClosing ==
  /\ patDeleteMut.st = "err"
  /\ patDeleteMut' = PatIdleMut
  /\ patDeleteDialog' = ClosedDeleteDialog
  /\ UNCHANGED returnVars
  /\ UNCHANGED <<assignVars, stockVars, refreshVars, dialogVars, inventoryVars>>
  /\ UNCHANGED stockFormVars
  /\ UNCHANGED sessionVars
  /\ UNCHANGED createVars
  /\ UNCHANGED employeeVars
\* deleteMutation.onError
DeleteFails ==
  /\ patDeleteMut.st = "err"
  /\ patDeleteMut' = PatIdleMut
  /\ UNCHANGED patDeleteDialog
  /\ UNCHANGED returnVars
  /\ UNCHANGED <<assignVars, stockVars, refreshVars, dialogVars, inventoryVars>>
  /\ UNCHANGED stockFormVars
  /\ UNCHANGED sessionVars
  /\ UNCHANGED createVars
  /\ UNCHANGED employeeVars

\* dispatch(signInSuccess(payload))
signInSuccess(payload) ==
  /\ session' = [signedIn |-> TRUE, token |-> payload.token,
                 role |-> payload.role]
  /\ lastAction' = [type |-> "signInSuccess", payload |-> payload]
  /\ UNCHANGED <<assignVars, stockVars, refreshVars, returnVars, dialogVars>>
  /\ UNCHANGED <<inventoryVars, stockFormVars, deleteVars>>
  /\ UNCHANGED createVars
  /\ UNCHANGED employeeVars

\* the mutant's sign-out keeps the role
signOutSuccessKeepingRole ==
  /\ session' = [session EXCEPT !.signedIn = FALSE, !.token = NullToken]
  /\ lastAction' = [type |-> "signOutSuccess", payload |-> NoAction.payload]
  /\ UNCHANGED <<assignVars, stockVars, refreshVars, returnVars, dialogVars>>
  /\ UNCHANGED <<inventoryVars, stockFormVars, deleteVars>>
  /\ UNCHANGED createVars
  /\ UNCHANGED employeeVars
\* dispatch(signOutSuccess())
signOutSuccess ==
  /\ session' = [signedIn |-> FALSE, token |-> NullToken, role |-> EmptyRole]
  /\ lastAction' = [type |-> "signOutSuccess", payload |-> NoAction.payload]
  /\ UNCHANGED <<assignVars, stockVars, refreshVars, returnVars, dialogVars>>
  /\ UNCHANGED <<inventoryVars, stockFormVars, deleteVars>>
  /\ UNCHANGED createVars
  /\ UNCHANGED employeeVars

\* a call of apiCreateUser whose request ends with the outcome
apiCreateUser(outcome) ==
  /\ createCall' = [service |-> "user", outcome |-> outcome,
                    result |-> apiCreateUserResult(outcome)]
  /\ UNCHANGED <<assignVars, stockVars, refreshVars, returnVars, dialogVars>>
  /\ UNCHANGED <<inventoryVars, stockFormVars, deleteVars, sessionVars>>
  /\ UNCHANGED employeeVars

\* a call of apiCreateBranch whose request ends with the outcome
apiCreateBranch(outcome) ==
  /\ createCall' = [service |-> "branch", outcome |-> outcome,
                    result |-> apiCreateBranchResult(outcome)]
  /\ UNCHANGED <<assignVars, stockVars, refreshVars, returnVars, dialogVars>>
  /\ UNCHANGED <<inventoryVars, stockFormVars, deleteVars, sessionVars>>
  /\ UNCHANGED employeeVars

\* the first answer of the employees query arrives
EmployeesLoaded(n) ==
  /\ employeeTotal = NoEmployeeData
  /\ employeeTotal' = n
  /\ UNCHANGED pagination
  /\ UNCHANGED <<assignVars, stockVars, refreshVars, returnVars, dialogVars>>
  /\ UNCHANGED <<inventoryVars, stockFormVars, deleteVars, sessionVars>>
  /\ UNCHANGED createVars

\* a click on Prev
PrevClick ==
  /\ paginationRendered
  /\ ~prevDisabled
  /\ pagination' = [pagination EXCEPT !.page = pagination.page - 1]
  /\ UNCHANGED employeeTotal
  /\ UNCHANGED <<assignVars, stockVars, refreshVars, returnVars, dialogVars>>
  /\ UNCHANGED <<inventoryVars, stockFormVars, deleteVars, sessionVars>>
  /\ UNCHANGED createVars

\* the mutant's Next is never disabled
NextClickNeverDisabled ==
  /\ paginationRendered
  /\ pagination' = [pagination EXCEPT !.page = pagination.page + 1]
  /\ UNCHANGED employeeTotal
  /\ UNCHANGED <<assignVars, stockVars, refreshVars, returnVars, dialogVars>>
  /\ UNCHANGED <<inventoryVars, stockFormVars, deleteVars, sessionVars>>
  /\ UNCHANGED createVars
\* a click on Next
NextClick ==
  /\ paginationRendered
  /\ ~nextDisabled
  /\ pagination' = [pagination EXCEPT !.page = pagination.page + 1]
  /\ UNCHANGED employeeTotal
  /\ UNCHANGED <<assignVars, stockVars, refreshVars, returnVars, dialogVars>>
  /\ UNCHANGED <<inventoryVars, stockFormVars, deleteVars, sessionVars>>
  /\ UNCHANGED createVars

\* a click on the page button i
PageClick(i) ==
  /\ i \in pages
  /\ pagination' = [pagination EXCEPT !.page = i]
  /\ UNCHANGED employeeTotal
  /\ UNCHANGED <<assignVars, stockVars, refreshVars, returnVars, dialogVars>>
  /\ UNCHANGED <<inventoryVars, stockFormVars, deleteVars, sessionVars>>
  /\ UNCHANGED createVars

\* the table's page size select
onSelectChange(limit) ==
  /\ pagination' = [page |-> 1, limit |-> limit]
  /\ UNCHANGED employeeTotal
  /\ UNCHANGED <<assignVars, stockVars, refreshVars, returnVars, dialogVars>>
  /\ UNCHANGED <<inventoryVars, stockFormVars, deleteVars, sessionVars>>
  /\ UNCHANGED createVars

StockInit ==
  /\ Init
  /\ clock = 0
  /\ zone = FixedZone

AssignNext == Tick \/ LoadAssignment \/ RefetchAssignment \/ Rerender
StockNext == FetchProducts \/ FetchStockSummary
RefreshNext ==
  \/ MountView \/ FetchAnswered \/ FetchCompletes \/ FetchFails
  \/ UserRefetch \/ ForeignChange \/ SubmitMutation \/ ServerApplies
  \/ MutationSucceeds \/ MutationFails

ReturnNext ==
  \/ PatMount \/ PatFetchAnswered \/ PatFetchCompletes \/ PatFetchFails
  \/ PatRefetch
  \/ \E id \in AssignmentIds : generateAssignmentQr(id)
  \/ QrSettles
  \/ \E id \in AssignmentIds : handleReturnClick(id)
  \/ \E c \in Conditions : SelectCondition(c)
  \/ \E st \in InventoryStatuses : SelectInventoryStatus(st)
  \/ resetReturnDialog \/ handleReturnSubmit
  \/ ReturnHandled \/ ReturnLost \/ ReturnSucceeds \/ ReturnFails
\* the return dialog workflow alone: no QR code is generated
ReturnDialogNext ==
  \/ PatMount \/ PatFetchAnswered \/ PatFetchCompletes \/ PatFetchFails
  \/ PatRefetch
  \/ \E id \in AssignmentIds : handleReturnClick(id)
  \/ \E c \in Conditions : SelectCondition(c)
  \/ \E st \in InventoryStatuses : SelectInventoryStatus(st)
  \/ resetReturnDialog \/ handleReturnSubmit
  \/ ReturnHandled \/ ReturnLost \/ ReturnSucceeds \/ ReturnFails
DeleteNext ==
  \/ PatMount \/ PatFetchAnswered \/ PatFetchCompletes \/ PatFetchFails
  \/ PatRefetch
  \/ \E id \in AssignmentIds : handleDeleteClick(id)
  \/ CloseDeleteDialog \/ handleDeleteConfirm
  \/ DeleteHandled \/ DeleteLost \/ DeleteSucceeds \/ DeleteFails
DialogNext ==
  \/ \E p \in ProductIds : handleAssignClick(p)
  \/ \E p \in ProductIds : InventoryFetched(p)
  \/ \E p \in ProductIds : InventoryFetchFailed(p)
  \/ \E p \in ProductIds : handleAddStockClick(p)
  \/ resetAssignmentForm \/ resetAddStockForm
  \/ \E e \in EmployeeIds : SelectEmployee(e)
  \/ \E i \in {0} \cup ProductIds : SelectInventoryItem(i)
  \/ handleAssignSubmit \/ AssignSucceeds \/ AssignFails
StockFormNext ==
  \/ \E p \in ProductIds : handleAddStockClick(p)
  \/ resetAddStockForm
  \/ \E qty \in QuantityInputs : QuantityChange(qty)
  \/ \E index \in 1..MaxQuantity, text \in SerialTexts :
       SerialNumberEdit(index, text)
  \/ handleAddStockSubmit \/ AddStockSucceeds \/ AddStockFails
InventoryNext ==
  \/ SnapshotArrives
  \/ \E term \in SearchTerms : setInventorySearch(term)
  \/ \E id \in ItemIds : handleSelectInventoryItem(id)
  \/ handleSelectAllInventoryItems
  \/ \E id \in ItemIds : handleEditInventory(id)
  \/ \E st \in EditStatuses : SelectEditStatus(st)
  \/ CloseEditInventoryDialog \/ handleUpdateInventorySubmit
  \/ \E id \in ItemIds : handleDeleteInventory(id)
  \/ CloseDeleteInventoryDialog \/ handleDeleteInventorySubmit
  \/ handleBulkDeleteInventory \/ CloseBulkDeleteDialog
  \/ handleBulkDeleteSubmit
  \/ UpdateInventorySucceeds \/ DeleteInventorySucceeds
  \/ BulkDeleteSucceeds \/ InventoryMutationFails
SessionNext ==
  \/ \E payload \in Payloads : signInSuccess(payload)
  \/ signOutSuccess
CreateNext ==
  \/ \E outcome \in Outcomes : apiCreateUser(outcome)
  \/ \E outcome \in Outcomes : apiCreateBranch(outcome)
EmployeeNext ==
  \/ \E n \in 0..MaxTotal : EmployeesLoaded(n)
  \/ PrevClick
  \/ NextClick
  \/ \E i \in 1..MathCeilDiv(MaxTotal, 10) : PageClick(i)
  \/ \E limit \in PageSizes : onSelectChange(limit)
\* no assign workflow is under way in ProductTable
AssignFormIdle ==
  /\ selectedEmployee = 0 /\ selectedInventoryId = 0
  /\ availableInventory = {} /\ ~assignDialogOpen
  /\ inventoryFetches = {} /\ assignRequest = NoRequest

\* no return workflow is under way in ProductAssignedTable
ReturnIdle == patDialog = ClosedReturnDialog /\ patMut = PatIdleMut /\ ~patQr

\* one page is mounted at a time, and one dialog workflow runs at a time
MutationNext ==
  \/ ReturnInit /\ DeleteInit /\ StockFormInit /\ DialogNext
  \/ ReturnInit /\ DeleteInit /\ AssignFormIdle /\ StockFormNext
  \/ DialogInit /\ StockFormInit /\ DeleteInit /\ ReturnDialogNext
  \/ DialogInit /\ StockFormInit /\ ReturnIdle /\ DeleteNext
Next ==
  \/ AssignNext \/ StockNext \/ RefreshNext \/ ReturnNext \/ DialogNext
  \/ InventoryNext \/ StockFormNext \/ DeleteNext \/ SessionNext
  \/ CreateNext \/ EmployeeNext

Spec == Init /\ [][Next]_vars
AssignSpec == Init /\ [][AssignNext]_vars
StockSpec == StockInit /\ [][StockNext]_vars
RefreshSpec == StockInit /\ [][RefreshNext]_vars
ReturnSpec == StockInit /\ [][ReturnNext]_vars
DialogSpec == StockInit /\ [][DialogNext]_vars
InventorySpec == StockInit /\ [][InventoryNext]_vars
StockFormSpec == StockInit /\ [][StockFormNext]_vars
MutationSpec == StockInit /\ [][MutationNext]_vars
ReturnDialogSpec == StockInit /\ [][ReturnDialogNext]_vars
SessionSpec == StockInit /\ [][SessionNext]_vars
CreateSpec == StockInit /\ [][CreateNext]_vars
EmployeeSpec == StockInit /\ [][EmployeeNext]_vars

\* ================================================================ properties
Rendered == view.phase = "rendered"
HasExpected == assignment.expectedReturnAt.k = "iso"
HasReturned == assignment.returnedAt.k = "iso"
NotReturned == assignment.returnedAt = Unset
ExpectedT == assignment.expectedReturnAt.t
ReturnedR == assignment.returnedAt.t
WholeDays(from, to) == (to - from) \div TicksPerDay

\* C1: with expectedReturnAt = T and returnedAt unset, the displayed state is
\* Overdue exactly when the instant read for the overdue test is after T;
\* at that instant equal to T, or before T, the state is Active.
C1_OverdueIffNowAfterExpected ==
  (Rendered /\ NotReturned /\ HasExpected) =>
    /\ (AssignmentState(view) = "Overdue") <=> (view.now2 > ExpectedT)
    /\ (view.now2 <= ExpectedT) => (AssignmentState(view) = "Active")

C1_WitnessBoundary ==
  /\ Rendered /\ NotReturned /\ HasExpected
  /\ view.now2 = ExpectedT
  /\ AssignmentState(view) = "Active"
  /\ view.expectedText = "ontime"

\* C2: a returned assignment is terminal: its state is Returned or
\* ReturnedLate, and a later render of the same snapshot, at any later clock
\* value, shows the same state and the same late-day count.
C2_ReturnedIsTerminal ==
  [][ (Rendered /\ HasReturned) =>
        /\ AssignmentState(view) \in {"Returned", "ReturnedLate"}
        /\ (assignment' = assignment) =>
             /\ AssignmentState(view') = AssignmentState(view)
             /\ view'.lateDays = view.lateDays
             /\ view'.returnStatus = view.returnStatus ]_vars

C2_WitnessRenderedLongAfterReturn ==
  /\ Rendered /\ HasReturned /\ HasExpected
  /\ ExpectedT < ReturnedR
  /\ clock >= ReturnedR + TicksPerDay
  /\ AssignmentState(view) = "ReturnedLate"

C4_ReturnedOnTime ==
  (Rendered /\ HasReturned /\ HasExpected /\ ReturnedR <= ExpectedT) =>
    /\ AssignmentState(view) = "Returned"
    /\ view.returnStatus = "ontime"
    /\ ~view.wasOverdue

C4_WitnessReturnedAtExpected ==
  /\ Rendered /\ HasReturned /\ HasExpected
  /\ ReturnedR = ExpectedT
  /\ AssignmentState(view) = "Returned"
  /\ view.returnStatus = "ontime"

\* C5: with returnedAt unset and no expectedReturnAt the state is Active at
\* every clock value, and no overdue text is shown.
C5_NoExpectedNeverOverdue ==
  (Rendered /\ NotReturned /\ assignment.expectedReturnAt = Unset) =>
    /\ AssignmentState(view) = "Active"
    /\ view.expectedText = "none"

C5_WitnessActiveLate ==
  /\ Rendered /\ NotReturned /\ assignment.expectedReturnAt = Unset
  /\ view.now1 = MaxTime
  /\ AssignmentState(view) = "Active"

\* C6: an unparseable assignedAt, expectedReturnAt or returnedAt yields a
\* DataError value: the derivation does not raise and does not report the
\* assignment as on time, Active or Returned.
AnyUnparseable ==
  \/ assignment.assignedAt.k = "bad"
  \/ assignment.expectedReturnAt.k = "bad"
  \/ assignment.returnedAt.k = "bad"

C6_UnparseableIsDataErrorValue ==
  (assignment.loaded /\ AnyUnparseable) =>
    /\ view.phase # "threw"
    /\ AssignmentState(view) \notin {"Active", "Returned"}
    /\ view.expectedText # "ontime"
    /\ view.returnStatus # "ontime"

\* C7: availableStock = 0 is shown as OutOfStock whatever minStockLevel is,
\* in the product table badge and in the dashboard low-stock cell.
C7_ZeroStockIsOutOfStock ==
  /\ (product.loaded /\ product.stockInfo.availableStock = 0) =>
       (badge.kind = "OutOfStock")
  /\ (lowRow.loaded /\ lowRow.currentStock = 0) => (lowCell = "OutOfStock")

\* C8: a server stockStatus that is present decides the badge
\* (OUT_OF_STOCK -> OutOfStock, LOW_STOCK -> LowStock, AVAILABLE -> InStock)
\* whatever availableStock and minStockLevel are.
ServerNamedKind(stockStatus) ==
  CASE stockStatus = "OUT_OF_STOCK" -> "OutOfStock"
    [] stockStatus = "LOW_STOCK" -> "LowStock"
    [] stockStatus = "AVAILABLE" -> "InStock"
    [] OTHER -> "none"

C8_ServerStatusWins ==
  (product.loaded /\ product.stockInfo.stockStatus # "undefined") =>
    /\ badge.kind = ServerNamedKind(product.stockInfo.stockStatus)
    /\ (badge.kind # "OutOfStock") =>
         (badge.count = product.stockInfo.availableStock)

C8_WitnessServerOverridesCounts ==
  /\ product.loaded
  /\ product.stockInfo.stockStatus = "AVAILABLE"
  /\ product.stockInfo.availableStock = 0
  /\ product.minStockLevel > 0
  /\ badge.kind = "InStock"

\* C9: without a server stockStatus the badge is recomputed: OutOfStock if
\* availableStock = 0, else LowStock(availableStock) if availableStock <=
\* minStockLevel, else InStock(availableStock).
RecomputedBadge(availableStock, minStockLevel) ==
  IF availableStock = 0 THEN [kind |-> "OutOfStock", count |-> NoCount]
  ELSE IF availableStock <= minStockLevel
  THEN [kind |-> "LowStock", count |-> availableStock]
  ELSE [kind |-> "InStock", count |-> availableStock]

C9_FallbackRecomputes ==
  (product.loaded /\ product.stockInfo.stockStatus = "undefined") =>
    (badge = RecomputedBadge(product.stockInfo.availableStock,
                             product.minStockLevel))

\* C10: whenever the state is Overdue, the days-overdue number shown is
\* floor((now - T) / 1 day), now being the instant of the overdue test.
C10_OverdueDaysAreWholeDays ==
  (Rendered /\ NotReturned /\ HasExpected
     /\ AssignmentState(view) = "Overdue") =>
    (view.overdueDays = WholeDays(ExpectedT, view.now2))

\* whole days from one instant to another, truncated toward zero
TruncDays(from, to) ==
  IF to >= from THEN (to - from) \div TicksPerDay
  ELSE -((from - to) \div TicksPerDay)

\* C11: a day count of 0 never surfaces: every Overdue state shows
\* daysOverdue >= 1 and every ReturnedLate state shows daysLate >= 1.
C11_NoZeroDayCount ==
  /\ (Rendered /\ AssignmentState(view) = "Overdue") => (view.overdueDays >= 1)
  /\ (Rendered /\ AssignmentState(view) = "ReturnedLate") =>
       (view.lateDays >= 1)

\* C12: in the Active state the Duration cell shows the whole number of days
\* between assignedAt and now (timestamp difference, truncated); for a
\* returned assignment no duration is displayed.
C12_ActiveDurationIsWholeDays ==
  /\ (Rendered /\ NotReturned /\ AssignmentState(view) = "Active") =>
       (view.durationDays = TruncDays(assignment.assignedAt.t, view.now1))
  /\ (Rendered /\ HasReturned) => (view.durationDays = NoDays)

\* C13: within one evaluation every use of the current time is taken against
\* one and the same instant: the duration, the overdue decision and the
\* days-overdue count all see the same now.
C13_SingleInstantPerEvaluation ==
  Rendered =>
    /\ (view.now1 # NaN /\ view.now2 # NaN) => (view.now1 = view.now2)
    /\ (view.now3 # NaN) => (view.now3 = view.now2)

\* C14: the derivations are total and single-valued: a loaded assignment
\* yields exactly one of Active, Returned, Overdue, ReturnedLate or DataError,
\* OVERDUE and WAS OVERDUE are never both shown, and a loaded stockInfo yields
\* exactly one of OutOfStock, LowStock, InStock.
C14_TotalAndSingleValued ==
  /\ assignment.loaded =>
       /\ AssignmentState(view) \in
            {"Active", "Returned", "Overdue", "ReturnedLate", "DataError"}
       /\ ~(view.isOverdue /\ view.wasOverdue)
  /\ product.loaded => (badge.kind \in {"OutOfStock", "LowStock", "InStock"})

C16_ReturnedAtMostOnce ==
  (patMut.st # "idle") => (patMut.id \notin patReturned)

C18_InventoryListMatchesProduct ==
  /\ assignDialogOpen => (availableInventory \subseteq InventoryOf(selectedProduct))
  /\ (assignRequest.st = "sent" /\ assignRequest.inventoryId # 0) =>
       (assignRequest.inventoryId \in InventoryOf(assignRequest.productId))

\* C20: an assign request carries autoSelect = true exactly when it carries
\* no inventoryId and autoSelect = false exactly when it carries one; it is
\* sent only with a product and an employee; apiAssignProduct sets autoSelect
\* to true only when its argument has no autoSelect key.
C20_AutoSelectIffNoInventory ==
  /\ (assignRequest.st = "sent") =>
       /\ (assignRequest.autoSelect = "true") <=> (assignRequest.inventoryId = 0)
       /\ (assignRequest.autoSelect = "false") <=> (assignRequest.inventoryId # 0)
       /\ assignRequest.productId # 0
       /\ assignRequest.employeeId # 0
  /\ \A d \in AssignBodies :
       apiAssignProduct(d).autoSelect =
         IF d.autoSelect = "absent" THEN "true" ELSE d.autoSelect

C20_WitnessSpecificItemRequested ==
  /\ assignRequest.st = "sent"
  /\ assignRequest.inventoryId # 0
  /\ assignRequest.autoSelect = "false"

\* C19: every inventory update, single delete or bulk-delete request of the
\* product-details page targets only items that are not ASSIGNED in the
\* snapshot the page holds when the request is sent, and an update never
\* carries status ASSIGNED.
C19_RequestsTargetNonAssigned ==
  (inventoryRequest.kind # "none") =>
    /\ inventoryRequest.assigned = {}
    /\ inventoryRequest.status # "ASSIGNED"

\* C21: in the Add Stock form the serial number array always has as many
\* entries as the quantity says, and an add-stock request never carries more
\* serial numbers than its quantity.
C21_SerialNumbersMatchQuantity ==
  /\ Len(stockSerialNumbers) = stockQuantity
  /\ (addStockRequest.st = "sent") =>
       (Len(addStockRequest.serialNumbers) <= addStockRequest.quantity)

\* C22: when an assign, add-stock, return or delete-assignment request fails,
\* the dialog it came from keeps its open flag and every selected value, and
\* no re-fetch is started; a dialog is closed only by its cancel or by the
\* success of its request, and a re-fetch is started only by mounting, by the
\* Refresh button or by a success.
C22_FailureLeavesDialog ==
  [][/\ AssignFails =>
          UNCHANGED <<selectedProduct, selectedEmployee, selectedInventoryId,
                      availableInventory, assignDialogOpen>>
     /\ AddStockFails =>
          UNCHANGED <<selectedProduct, stockQuantity, stockSerialNumbers,
                      addStockDialogOpen>>
     /\ (patMut.st = "err" /\ patMut'.st = "idle") =>
          UNCHANGED <<patDialog, patFetch, patShown>>
     /\ (patDeleteMut.st = "err" /\ patDeleteMut'.st = "idle") =>
          UNCHANGED <<patDeleteDialog, patFetch, patShown>>
     /\ (assignDialogOpen /\ ~assignDialogOpen') =>
          (resetAssignmentForm \/ AssignSucceeds)
     /\ (addStockDialogOpen /\ ~addStockDialogOpen') =>
          (resetAddStockForm \/ AddStockSucceeds)
     /\ (patDialog.open /\ ~patDialog'.open) =>
          (resetReturnDialog \/ ReturnSucceeds)
     /\ (patDeleteDialog.open /\ ~patDeleteDialog'.open) =>
          (CloseDeleteDialog \/ DeleteSucceeds)
     /\ (patFetch' # patFetch /\ patFetch'.st = "sent") =>
          (PatMount \/ PatRefetch \/ ReturnSucceeds \/ DeleteSucceeds)]_vars

C22_WitnessFailureWithDialogOpen ==
  /\ patDeleteMut.st = "err"
  /\ patDeleteDialog.open
  /\ patDeleteDialog.assignment = patDeleteMut.id

\* C23: in the active-assignments table, under return clicks, condition and
\* status selections, cancels, submits and their successes and failures, an
\* open return dialog always has an assignment, every opening of the dialog
\* starts with condition GOOD and inventory status AVAILABLE, and no return
\* request is sent without an assignment.
C23_ReturnDialogStartsFresh ==
  /\ [](patDialog.open => patDialog.assignment # 0)
  /\ [](patMut.st # "idle" => patMut.id # 0)
  /\ [][(~patDialog.open /\ patDialog'.open) =>
          /\ patDialog'.condition = "GOOD"
          /\ patDialog'.inventoryStatus = "AVAILABLE"]_vars

C23_WitnessReopenedAfterChoices ==
  /\ patReturned # {}
  /\ patDialog.open
  /\ patDialog.assignment \notin patReturned
  /\ patDialog.condition = "GOOD" /\ patDialog.inventoryStatus = "AVAILABLE"
  /\ patMut.st = "sent"

\* C24: in the session slice, whenever signedIn is false the token is null
\* and the role is the empty string; after signOutSuccess the state is the
\* initial state; after signInSuccess signedIn is true and token and role are
\* the payload's.
C24_SessionSlice ==
  /\ ~session.signedIn =>
       (session.token = NullToken /\ session.role = EmptyRole)
  /\ (lastAction.type = "signOutSuccess") => (session = initialState)
  /\ (lastAction.type = "signInSuccess") =>
       /\ session.signedIn
       /\ session.token = lastAction.payload.token
       /\ session.role = lastAction.payload.role

C24_WitnessSignedOutAfterSignIn ==
  /\ lastAction.type = "signOutSuccess"
  /\ session = initialState

\* the status-specific default texts of a service
StatusDefault(service, status) ==
  CASE status = 400 -> "Invalid request data"
    [] status = 401 -> "Authentication required"
    [] status = 403 -> "Permission denied"
    [] status = 409 -> IF service = "user" THEN "Username already exists"
                       ELSE "Branch name already exists"
    [] status = 500 -> "Internal server error"
    [] OTHER -> IF service = "user" THEN "Failed to create user"
                ELSE "Failed to create branch"

\* the server's or the error's message when it has a non-empty one
Given(message, default) ==
  IF message # Undefined /\ message # "" THEN message ELSE default

\* C25: apiCreateUser and apiCreateBranch settle with a result value for every
\* outcome of the request; success is true exactly for a response with status
\* 201; another response gives the server message or the default; an error
\* with a response gives the server message or the default of its status; an
\* error with a request and no response gives 'No response received from
\* server'; any other error gives its message or a generic text.
C25_CreateNeverThrows ==
  (createCall.service # "none") =>
    LET o == createCall.outcome
        r == createCall.result
        user == createCall.service = "user"
    IN /\ ~r.threw
       /\ r.success <=> (o.kind = "resolved" /\ o.status = 201)
       /\ (o.kind = "resolved" /\ o.status # 201) =>
            r.message = Given(o.message, IF user THEN "Failed to create user"
                                         ELSE "Failed to create branch")
       /\ (o.kind = "rejected" /\ o.hasResponse) =>
            r.message = Given(IF o.hasData THEN o.data ELSE Undefined,
                              StatusDefault(createCall.service, o.status))
       /\ (o.kind = "rejected" /\ ~o.hasResponse /\ o.hasRequest) =>
            r.message = "No response received from server"
       /\ (o.kind = "rejected" /\ ~o.hasResponse /\ ~o.hasRequest) =>
            r.message = Given(o.message, IF user THEN "Error creating user"
                                         ELSE "Error creating branch")

C25_WitnessConflictWithoutServerMessage ==
  /\ createCall.service = "branch"
  /\ createCall.outcome.kind = "rejected"
  /\ createCall.outcome.hasResponse
  /\ createCall.outcome.status = 409
  /\ ~createCall.outcome.hasData
  /\ createCall.result.message = "Branch name already exists"

\* C26: with two pages or more EmployeeTable draws min(5, totalPages)
\* consecutive page buttons that lie within 1..totalPages and include the
\* current page; Prev is disabled on page 1 and Next on the last page, and the
\* page stays within 1..totalPages; with one page or none nothing is drawn.
C26_PaginationWindow ==
  /\ (totalPages >= 2) =>
       /\ pagination.page \in 1..totalPages
       /\ \E first \in 1..totalPages :
            pages = first..(first + MathMin(5, totalPages) - 1)
       /\ pages \subseteq 1..totalPages
       /\ pagination.page \in pages
       /\ (pagination.page = 1) => ~ENABLED PrevClick
       /\ (pagination.page = totalPages) => ~ENABLED NextClick
  /\ (totalPages <= 1) =>
       /\ pages = {}
       /\ ~ENABLED PrevClick
       /\ ~ENABLED NextClick

C26_WitnessLastPageOfMany ==
  /\ totalPages > 5
  /\ pagination.page = totalPages
  /\ pages = (totalPages - 4)..totalPages
====
